---- MODULE Spec2Model ----
(***************************************************************************)
(* Model of the adaptive event-retrieval engine of src/lib/history/        *)
(* subgraph.ts: the endpoint schema caches, schema discovery for the Aave  *)
(* and Compound adapters, pagination under the maxEvents cap and event     *)
(* normalization.  Every await of the source is one step of the model: a   *)
(* request is outstanding between the step that sends it and the step that *)
(* receives its response.                                                  *)
(***************************************************************************)
EXTENDS Integers, Sequences, FiniteSets, TLC

\* ------------------------------------------------------------------ bounds
\* Largest value of maxEvents a caller supplies (0 stands for "not supplied").
MaxCap == 2
\* Page size of the model (the source pages by 1000 records).
PAGE_SIZE == 2
\* Largest number of requests that fail in one behaviour.
MaxFailures == 1

\* ------------------------------------------------------------ JS values
NONE == "undefined"

Undefined == [t |-> "undefined"]
Null == [t |-> "null"]
Str(s) == [t |-> "string", s |-> s]
Num(n) == [t |-> "number", c |-> "finite", n |-> n]
NaN == [t |-> "number", c |-> "nan", n |-> 0]
Infinity == [t |-> "number", c |-> "inf", n |-> 1]

Digits == {"0", "1", "2", "3", "4", "5", "6", "7", "8", "9"}
DigitValue(ch) ==
  CASE ch = "0" -> 0 [] ch = "1" -> 1 [] ch = "2" -> 2 [] ch = "3" -> 3
    [] ch = "4" -> 4 [] ch = "5" -> 5 [] ch = "6" -> 6 [] ch = "7" -> 7
    [] ch = "8" -> 8 [] ch = "9" -> 9

RECURSIVE DigitsToNat(_)
DigitsToNat(s) ==
  IF s = <<>> THEN 0
  ELSE 10 * DigitsToNat(SubSeq(s, 1, Len(s) - 1)) + DigitValue(s[Len(s)])

RECURSIVE TrimSpaces(_)
TrimSpaces(s) ==
  IF s = <<>> THEN s
  ELSE IF s[1] = " " THEN TrimSpaces(Tail(s))
  ELSE IF s[Len(s)] = " " THEN TrimSpaces(SubSeq(s, 1, Len(s) - 1))
  ELSE s

\* Number(value) of ECMAScript for the value shapes a subgraph hands out.
\* A string is a sequence of one-character strings: blank -> 0, an optionally
\* signed run of digits -> its value, "Infinity" -> Infinity, else NaN.
StringToNumber(s) ==
  LET t == TrimSpaces(s)
      signed == t # <<>> /\ t[1] \in {"-", "+"}
      body == IF signed THEN Tail(t) ELSE t
  IN  IF t = <<>> THEN Num(0)
      ELSE IF body = <<"I", "n", "f", "i", "n", "i", "t", "y">> THEN Infinity
      ELSE IF body # <<>> /\ \A i \in 1..Len(body) : body[i] \in Digits
           THEN Num(IF t[1] = "-" THEN 0 - DigitsToNat(body) ELSE DigitsToNat(body))
      ELSE NaN

ToNumber(v) ==
  CASE v.t = "undefined" -> NaN
    [] v.t = "null" -> Num(0)
    [] v.t = "number" -> v
    [] v.t = "string" -> StringToNumber(v.s)

\* a ?? b
Coalesce(a, b) == IF a.t \in {"undefined", "null"} THEN b ELSE a

\* Number.isFinite
IsFinite(v) == v.t = "number" /\ v.c = "finite"

\* !value for the identity strings of the model (TLA+ strings).
Falsy(v) == v.t \in {"undefined", "null"} \/ (v.t = "string" /\ v.s = "")

\* Nested values of a raw record.
Obj(fields) == [t |-> "object", o |-> fields]
Arr(items) == [t |-> "array", a |-> items]
\* a value in a condition; its strings are identity strings (TLA+ strings)
Truthy(v) ==
  CASE v.t \in {"undefined", "null"} -> FALSE
    [] v.t = "string" -> v.s # ""
    [] v.t = "number" -> v.c = "inf" \/ (v.c = "finite" /\ v.n # 0)
    [] OTHER -> TRUE
\* typeof v === "object" for a truthy v, Array.isArray(v)
IsObject(v) == v.t \in {"object", "array"}
IsArray(v) == v.t = "array"
\* value?.[name]
Prop(v, name) ==
  IF v.t = "object" /\ name # "undefined" /\ name \in DOMAIN v.o THEN v.o[name]
  ELSE [t |-> "undefined"]
\* list[0] ?? null
FirstOrNull(v) == IF v.a # <<>> /\ v.a[1].t # "undefined" THEN v.a[1] ELSE [t |-> "null"]

\* raw[name]; a config field that was not resolved reads as undefined.
Get(raw, name) ==
  IF name # NONE /\ name \in DOMAIN raw THEN raw[name] ELSE Undefined

\* ------------------------------------------------------- normalizeEvent
\* normalizeEvent without the timestamp test: the timestamp is defaulted.
normalizeEventDefaulting(params) ==
  LET txHash == Coalesce(params.txHash, Str(""))
      timestamp == ToNumber(Coalesce(params.timestamp, Num(0)))
  IN  IF Falsy(txHash) THEN Null
      ELSE [t |-> "event", txHash |-> txHash.s, logIndex |-> 0, blockNumber |-> 0,
            timestamp |-> IF IsFinite(timestamp) THEN timestamp.n ELSE 0,
            eventType |-> Coalesce(params.eventType, Str("UNKNOWN")).s,
            assetAddress |-> Coalesce(params.assetAddress, Null),
            assetSymbol |-> Coalesce(params.assetSymbol, Null),
            amountUsdRaw |-> Coalesce(params.amountUsdRaw, Null),
            src |-> params.src]

\* lines 206-245.  The event keeps the roles that identify, order and price
\* it (the amount and the decimals are left out), and src, the position of the
\* raw record in the endpoint's data, which the engine itself never reads.
normalizeEvent(params) ==
  LET txHash == Coalesce(params.txHash, Str(""))
      logIndex == ToNumber(Coalesce(params.logIndex, Num(0)))
      timestamp == ToNumber(Coalesce(params.timestamp, Num(0)))
      blockNumber == ToNumber(Coalesce(params.blockNumber, Num(0)))
  IN  IF Falsy(txHash) THEN Null
      ELSE IF ~IsFinite(timestamp) \/ timestamp.n <= 0 THEN Null
      ELSE [t |-> "event",
            txHash |-> txHash.s,
            logIndex |-> IF IsFinite(logIndex) THEN logIndex.n ELSE 0,
            blockNumber |-> IF IsFinite(blockNumber) THEN blockNumber.n ELSE 0,
            timestamp |-> timestamp.n,
            eventType |-> Coalesce(params.eventType, Str("UNKNOWN")).s,
            assetAddress |-> Coalesce(params.assetAddress, Null),
            assetSymbol |-> Coalesce(params.assetSymbol, Null),
            amountUsdRaw |-> Coalesce(params.amountUsdRaw, Null),
            src |-> params.src]

\* ------------------------------------------------------------- TypeRef
\* A TypeRef is the chain kind/name/ofType; the model keeps it as the sequence
\* of its layers, outermost first, so that ofType is the tail and a missing
\* ofType is the empty sequence.
Named(n) == <<[kind |-> "OBJECT", name |-> n]>>
NonNull(t) == <<[kind |-> "NON_NULL", name |-> NONE]>> \o t
List(t) == <<[kind |-> "LIST", name |-> NONE]>> \o t

\* unwrapTypeName that looks below three wrappers and no further
unwrapThreeLayers(typeRef) ==
  LET IsWrapper(i) == i <= Len(typeRef) /\ typeRef[i].kind \in {"NON_NULL", "LIST"}
      depth == IF ~IsWrapper(1) THEN 1 ELSE IF ~IsWrapper(2) THEN 2
               ELSE IF ~IsWrapper(3) THEN 3 ELSE 4
  IN  IF depth > Len(typeRef) \/ IsWrapper(depth) THEN NONE ELSE typeRef[depth].name
RECURSIVE unwrapTypeName(_)
unwrapTypeName(typeRef) ==
  IF typeRef = <<>> THEN NONE
  ELSE IF typeRef[1].kind \in {"NON_NULL", "LIST"} THEN unwrapTypeName(Tail(typeRef))
  ELSE typeRef[1].name

isRequiredArg(typeRef) == typeRef # <<>> /\ typeRef[1].kind = "NON_NULL"

\* value.endsWith("s") ? value.slice(0, -1) : value, first letter upper-cased,
\* tabulated over the root field names of the modelled endpoints.
DerivedNames ==
  [deposits |-> "Deposit", repays |-> "Repay", borrows |-> "Borrow",
   events |-> "Event", userTransactions |-> "UserTransaction",
   accountEvents |-> "AccountEvent", tokens |-> "Token", markets |-> "Market",
   liquidates |-> "Liquidate"]
deriveEntityTypeName(value) ==
  IF value = "" THEN NONE ELSE DerivedNames[value]

\* name.toLowerCase().includes(part), tabulated over the same names.
LowerIncludes(name, part) ==
  CASE part = "borrow" -> name \in {"borrows"}
    [] part = "repay" -> name \in {"repays"}
    [] part = "transaction" -> name \in {"userTransactions"}
    [] part = "activity" -> FALSE
    [] part = "event" -> name \in {"events", "accountEvents"}

SeqNames(fields) == {fields[i].name : i \in 1..Len(fields)}

\* fields.find(field => pred(field.name))?.name
FirstIndex(fields, S) ==
  IF \E i \in 1..Len(fields) : fields[i].name \in S
  THEN CHOOSE i \in 1..Len(fields) :
         fields[i].name \in S /\ \A j \in 1..(i - 1) : fields[j].name \notin S
  ELSE 0
FindField(fields, name) ==
  LET i == FirstIndex(fields, {name})
  IN  IF i = 0 THEN [name |-> NONE, type |-> <<>>, args |-> <<>>] ELSE fields[i]

\* pickField that follows the order of the fields, not of the candidates
pickFieldInFieldOrder(fields, candidates) ==
  LET S == {candidates[i] : i \in 1..Len(candidates)}
      i == FirstIndex(fields, S)
  IN  IF i = 0 THEN NONE ELSE fields[i].name
RECURSIVE pickField(_, _)
pickField(fields, candidates) ==
  IF candidates = <<>> THEN NONE
  ELSE IF \E i \in 1..Len(fields) : fields[i].name = Head(candidates)
       THEN Head(candidates)
  ELSE pickField(fields, Tail(candidates))

\* a ?? b on names
Or(a, b) == IF a = NONE THEN b ELSE a

\* ------------------------------------------------- the indexing services
\* What an endpoint serves: the root query fields in schema order, the fields
\* of its object types, the input fields of its filter types and, per root
\* field, the wallet's records oldest first.
RF(name, type, args) == [name |-> name, type |-> type, args |-> args]
F(name, type) == [name |-> name, type |-> type, args |-> <<>>]
Arg(name, type) == [name |-> name, type |-> type]
ListOfNonNull(n) == NonNull(List(NonNull(Named(n))))
Chars(n) ==
  CASE n = 0 -> <<"0">> [] n = 50 -> <<"5", "0">> [] n = 100 -> <<"1", "0", "0">>
    [] n = 120 -> <<" ", "1", "2", "0", " ">> [] n = -5 -> <<"-", "5">>

IdFields ==
  <<F("id", NonNull(Named("ID"))), F("timestamp", NonNull(Named("Int"))),
    F("hash", NonNull(Named("String"))), F("logIndex", NonNull(Named("Int"))),
    F("blockNumber", NonNull(Named("BigInt"))), F("amount", NonNull(Named("BigInt"))),
    F("asset", Named("Token"))>>
TokenFields ==
  <<F("id", NonNull(Named("ID"))), F("symbol", NonNull(Named("String"))),
    F("decimals", NonNull(Named("Int")))>>
FilterArgs(filter) ==
  <<Arg("where", filter), Arg("skip", Named("Int")), Arg("first", Named("Int"))>>

\* Three event streams with where filters; repays precedes borrows in the
\* schema and deposits precedes both.
ShapeAaveStd ==
  [root |-> <<RF("deposits", ListOfNonNull("Deposit"), FilterArgs(Named("Deposit_filter"))),
              RF("repays", ListOfNonNull("Repay"), FilterArgs(Named("Repay_filter"))),
              RF("borrows", ListOfNonNull("Borrow"), FilterArgs(NonNull(Named("Borrow_filter"))))>>,
   types |-> [Deposit |-> IdFields, Repay |-> IdFields, Borrow |-> IdFields],
   inputs |-> [Deposit_filter |-> <<F("user", Named("String")), F("timestamp_gte", Named("Int"))>>,
               Repay_filter |-> <<F("account", Named("String")), F("timestamp_gt", Named("Int"))>>,
               Borrow_filter |-> <<F("timestamp_gte", Named("Int"))>>],
   data |-> [deposits |-> <<[id |-> Str("d1"), hash |-> Str("0xd1"), timestamp |-> Str(Chars(100)),
                             logIndex |-> Num(1), blockNumber |-> Num(10),
                             asset |-> Obj([id |-> Str("0xtok"), symbol |-> Str("TOK")])],
                            [id |-> Str("d2"), hash |-> Str("0xd2"), timestamp |-> Str(Chars(0)),
                             logIndex |-> Num(2), blockNumber |-> Num(11)],
                            [id |-> Str("d3"), hash |-> Str("0xd3"), timestamp |-> Num(300),
                             logIndex |-> Num(0), blockNumber |-> Num(30)]>>,
             repays |-> <<[id |-> Str("r1"), hash |-> Str("0xr1"),
                           timestamp |-> Str(<<"a", "b", "c">>), blockNumber |-> Num(20)],
                          [id |-> Str("r2"), hash |-> Null, timestamp |-> Num(250),
                           blockNumber |-> Num(25)]>>,
             borrows |-> <<[id |-> Str("b1"), hash |-> Str("0xb1"), timestamp |-> Str(Chars(120)),
                            blockNumber |-> Str(Chars(50)),
                            asset |-> Obj([id |-> Str("0xtok")])],
                           [id |-> Str("b2"), hash |-> Str(""), timestamp |-> Num(50)],
                           [id |-> Str("b3"), hash |-> Str("0xb3")]>>]]

\* One activity stream that takes the user as a direct, required argument and
\* reaches its asset through position -> market -> inputTokens.
ShapeAaveDirect ==
  [root |-> <<RF("userTransactions", NonNull(List(Named("UserTransaction"))),
                 <<Arg("user", NonNull(Named("String"))), Arg("from", Named("Int")),
                   Arg("skip", Named("Int"))>>)>>,
   types |-> [UserTransaction |-> <<F("id", NonNull(Named("ID"))),
                                    F("timestamp", NonNull(Named("Int"))),
                                    F("txHash", NonNull(Named("String"))),
                                    F("action", NonNull(Named("String"))),
                                    F("position", Named("Position"))>>,
              Position |-> <<F("id", NonNull(Named("ID"))), F("market", NonNull(Named("Market")))>>,
              Market |-> <<F("id", NonNull(Named("ID"))),
                           F("inputTokens", NonNull(List(Named("Token"))))>>,
              Token |-> TokenFields],
   inputs |-> [Int |-> <<>>],
   data |-> [userTransactions |-> <<[id |-> Str("u1"), txHash |-> Str("0xu1"), timestamp |-> Num(100),
                                     action |-> Str("Borrow")],
                                    [id |-> Str("u2"), txHash |-> Str("0xu2"), timestamp |-> NaN,
                                     action |-> Str("Repay")],
                                    [id |-> Str("u3"), timestamp |-> Infinity,
                                     action |-> Str("Repay")]>>]]

\* One event stream whose asset is reached through market -> inputToken.
ShapeAaveReserve ==
  [root |-> <<RF("liquidates", ListOfNonNull("Liquidate"), <<Arg("skip", Named("Int"))>>)>>,
   types |-> [Liquidate |-> IdFields \o <<F("market", NonNull(Named("Market")))>>,
              Market |-> <<F("id", NonNull(Named("ID"))), F("name", Named("String")),
                           F("inputToken", NonNull(Named("Token")))>>,
              Token |-> TokenFields],
   inputs |-> [Int |-> <<>>],
   data |-> [liquidates |-> <<[id |-> Str("l1"), hash |-> Str("0xl1"), timestamp |-> Num(100)]>>]]

\* The only history-shaped root field demands an argument the engine cannot
\* supply.
ShapeAaveUnusable ==
  [root |-> <<RF("tokens", ListOfNonNull("Token"), <<Arg("block", NonNull(Named("Block_height")))>>),
              RF("deposits", ListOfNonNull("Deposit"),
                 <<Arg("block", NonNull(Named("Block_height"))), Arg("skip", Named("Int"))>>)>>,
   types |-> [Deposit |-> IdFields, Token |-> TokenFields],
   inputs |-> [Int |-> <<>>],
   data |-> [deposits |-> <<[id |-> Str("x1"), timestamp |-> Num(100)]>>]]

\* No root field leads to an event type.
ShapeAaveNoField ==
  [root |-> <<RF("markets", ListOfNonNull("Market"), <<Arg("skip", Named("Int"))>>),
              RF("tokens", ListOfNonNull("Token"), <<Arg("id", NonNull(Named("ID")))>>)>>,
   types |-> [Market |-> <<F("id", NonNull(Named("ID"))), F("inputToken", NonNull(Named("Token")))>>,
              Token |-> TokenFields],
   inputs |-> [Int |-> <<>>],
   data |-> [markets |-> <<>>]]

\* The event type is opaque: introspecting it yields no fields.
ShapeAaveOpaque ==
  [root |-> <<RF("events", ListOfNonNull("Event"), <<Arg("skip", Named("Int"))>>)>>,
   types |-> [Token |-> TokenFields],
   inputs |-> [Int |-> <<>>],
   data |-> [events |-> <<[id |-> Str("e1"), transactionHash |-> Str("0xe1"), timestamp |-> Num(100),
                           eventType |-> Str("Supply"), amountUSD |-> Str(Chars(50)),
                           asset |-> Obj([id |-> Str("0xtok"), symbol |-> Str("TOK")])],
                          [id |-> Str("e2"), transactionHash |-> Str("0xe2"), timestamp |-> Null,
                           eventType |-> Str("Supply")]>>]]

ShapeCompoundStd ==
  [root |-> <<RF("markets", ListOfNonNull("Market"), <<Arg("skip", Named("Int"))>>),
              RF("accountEvents", NonNull(List(Named("AccountEvent"))),
                 FilterArgs(Named("AccountEvent_filter")))>>,
   types |-> [AccountEvent |-> <<F("id", NonNull(Named("ID"))),
                                 F("timestamp", NonNull(Named("Int"))),
                                 F("transactionHash", NonNull(Named("String"))),
                                 F("logIndex", NonNull(Named("Int"))),
                                 F("eventType", NonNull(Named("String"))),
                                 F("asset", Named("Token"))>>,
              Token |-> TokenFields],
   inputs |-> [AccountEvent_filter |-> <<F("account", Named("String")),
                                         F("timestamp_gte", Named("Int"))>>],
   data |-> [accountEvents |-> <<[id |-> Str("c1"), transactionHash |-> Str("0xc1"),
                                  timestamp |-> Num(100), eventType |-> Str("Supply"),
                                  asset |-> Obj([id |-> Str("0xtok"), symbol |-> Str("TOK")])],
                                 [id |-> Str("c2"), transactionHash |-> Str("0xc2"),
                                  timestamp |-> Str(Chars(-5)), eventType |-> Str("Supply")],
                                 [id |-> Str("c3"), timestamp |-> Str(Chars(120)),
                                  eventType |-> Str("Withdraw")]>>]]

ShapeCompoundNoField ==
  [root |-> <<RF("markets", ListOfNonNull("Market"), <<Arg("skip", Named("Int"))>>),
              RF("tokens", ListOfNonNull("Token"), <<Arg("skip", Named("Int"))>>)>>,
   types |-> [Token |-> TokenFields],
   inputs |-> [Int |-> <<>>],
   data |-> [markets |-> <<>>]]

Min(a, b) == IF a < b THEN a ELSE b

\* type { kind name ofType { kind name ofType { kind name } } }: the
\* introspection queries select three layers of a type reference.
Truncate3(typeRef) == SubSeq(typeRef, 1, Min(3, Len(typeRef)))
TruncateFields(fields) ==
  [i \in 1..Len(fields) |->
     [name |-> fields[i].name,
      type |-> Truncate3(fields[i].type),
      args |-> [j \in 1..Len(fields[i].args) |->
                  [name |-> fields[i].args[j].name,
                   type |-> Truncate3(fields[i].args[j].type)]]]]

\* data.__schema?.queryType?.fields ?? []
ServeRoot(shape) == TruncateFields(shape.root)
\* __type(name: $name) { fields { name type } }, [] when no such type
ServeType(shape, name) ==
  IF name \in DOMAIN shape.types THEN TruncateFields(shape.types[name]) ELSE <<>>
\* __type(name: $name) { inputFields { name } }
ServeInput(shape, name) ==
  IF name \in DOMAIN shape.inputs THEN shape.inputs[name] ELSE <<>>
\* A timestamp filter of a query (timestamp_gte: $from, timestamp_gt: $from,
\* from: $from) selects the records at or after $from, or after it; a record
\* whose timestamp is no number is not compared.
Selected(record, filter, from) ==
  \/ filter = NONE
  \/ ~IsFinite(ToNumber(Get(record, "timestamp")))
  \/ IF filter = "timestamp_gt" THEN ToNumber(Get(record, "timestamp")).n > from
     ELSE ToNumber(Get(record, "timestamp")).n >= from
\* first: PAGE_SIZE, skip: $skip over the wallet's records of one root field
\* that the timestamp filters of the query select; each record carries src,
\* its position in the endpoint's data.
ServePage(shape, field, skip, filters, from) ==
  LET data == IF field \in DOMAIN shape.data THEN shape.data[field] ELSE <<>>
      all == SelectSeq([i \in 1..Len(data) |-> i],
                       LAMBDA i : \A filter \in filters : Selected(data[i], filter, from))
      last == Min(Len(all), skip + PAGE_SIZE)
  IN  [i \in 1..(IF last > skip THEN last - skip ELSE 0) |->
         [raw |-> data[all[skip + i]], src |-> <<field, all[skip + i]>>]]

\* --------------------------------------------- buildAaveConfigFromField
NoAsset == [defined |-> FALSE, symbol |-> NONE, underlyingAsset |-> NONE, decimals |-> NONE]
AssetNames(symbol, underlyingAsset, decimals) ==
  [defined |-> TRUE, symbol |-> symbol, underlyingAsset |-> underlyingAsset,
   decimals |-> decimals]
NoRoles ==
  [id |-> NONE, timestamp |-> NONE, txHash |-> NONE, logIndex |-> NONE,
   blockNumber |-> NONE, action |-> NONE, amount |-> NONE, amountUsd |-> NONE]
GuessedRoles ==
  [id |-> "id", timestamp |-> "timestamp", txHash |-> "transactionHash",
   logIndex |-> "logIndex", blockNumber |-> "blockNumber", action |-> "eventType",
   amount |-> "amount", amountUsd |-> "amountUSD"]
EmptyAaveConfig ==
  [queryField |-> NONE, eventTypeName |-> NONE, fields |-> NoRoles,
   whereUserField |-> NONE, whereTimestampField |-> NONE, directUserArg |-> NONE,
   directTimestampArg |-> NONE, requiresWhere |-> FALSE, orderByField |-> NONE,
   reserveField |-> NONE, assetField |-> NONE, reserveNestedField |-> NONE,
   reserveFields |-> NoAsset, reserveNestedFields |-> NoAsset, positionField |-> NONE,
   positionMarketField |-> NONE, positionMarketTokenField |-> NONE,
   positionMarketTokenListField |-> NONE, positionMarketTokenFields |-> NoAsset,
   fallbackEventType |-> NONE]

supportedRequired == {"user", "account", "from", "skip", "where"}
RequiredArgs(queryField) ==
  {queryField.args[i].name : i \in {j \in 1..Len(queryField.args) :
                                      isRequiredArg(queryField.args[j].type)}}
HasUnsupportedRequired(queryField) ==
  \E arg \in RequiredArgs(queryField) : arg \notin supportedRequired

\* The locals of one buildAaveConfigFromField invocation.  stage names the
\* introspection request the invocation is suspended on ("eventType", ...,
\* "whereType"), or "done" (cfg is returned) or "null" (null is returned);
\* req is the type name that request asks for.
NoBuild ==
  [stage |-> "null", req |-> NONE, qf |-> RF(NONE, <<>>, <<>>), cfg |-> EmptyAaveConfig,
   eventFields |-> <<>>, reserveTypeName |-> NONE, reserveTypeFields |-> <<>>]
Suspend(b, stage, req) == [b EXCEPT !.stage = stage, !.req = req]

\* lines 939-981: direct arguments, then the where input type
EnterWhere(b) ==
  LET args == b.qf.args
      direct == [b EXCEPT
        !.cfg.directUserArg =
            (LET i == FirstIndex(args, {"user", "account"})
             IN  IF i = 0 THEN NONE ELSE args[i].name),
        !.cfg.directTimestampArg =
            (LET i == FirstIndex(args, {"from", "fromTimestamp", "timestamp_gte"})
             IN  IF i = 0 THEN NONE ELSE args[i].name)]
      w == FirstIndex(args, {"where"})
      whereTypeName == IF w = 0 THEN NONE ELSE unwrapTypeName(args[w].type)
  IN  IF whereTypeName # NONE THEN Suspend(direct, "whereType", whereTypeName)
      ELSE Suspend(direct, "done", NONE)

\* lines 853-857: the position -> market -> token chain
EnterPosition(b) ==
  LET positionTypeName ==
        IF b.cfg.positionField = NONE THEN NONE
        ELSE unwrapTypeName(FindField(b.eventFields, b.cfg.positionField).type)
  IN  IF positionTypeName # NONE THEN Suspend(b, "positionType", positionTypeName)
      ELSE EnterWhere(b)

\* lines 834-844
WithReserveFields(b) ==
  [b EXCEPT !.cfg.reserveFields =
     AssetNames(Or(pickField(b.reserveTypeFields, <<"symbol", "name">>), "symbol"),
                Or(pickField(b.reserveTypeFields,
                             <<"underlyingAsset", "underlyingAssetAddress",
                               "tokenAddress", "id">>), "id"),
                Or(pickField(b.reserveTypeFields, <<"decimals">>), "decimals"))]

\* lines 760-764
EnterReserve(b) ==
  LET reserveTypeName ==
        IF b.cfg.reserveField = NONE THEN NONE
        ELSE unwrapTypeName(FindField(b.eventFields, b.cfg.reserveField).type)
  IN  IF reserveTypeName # NONE
      THEN Suspend([b EXCEPT !.reserveTypeName = reserveTypeName],
                   "reserveType", reserveTypeName)
      ELSE EnterPosition(b)

\* lines 671-698: up to the first await
BuildStart(queryField) ==
  LET eventTypeName ==
        Or(unwrapTypeName(queryField.type), deriveEntityTypeName(queryField.name))
      b == [NoBuild EXCEPT !.qf = queryField,
                           !.cfg.queryField = queryField.name,
                           !.cfg.eventTypeName = eventTypeName,
                           !.cfg.fallbackEventType = queryField.name,
                           !.cfg.requiresWhere = ("where" \in RequiredArgs(queryField))]
  IN  IF HasUnsupportedRequired(queryField) THEN NoBuild
      ELSE IF eventTypeName = NONE THEN NoBuild
      ELSE Suspend(b, "eventType", eventTypeName)

\* lines 700-756: the continuation of the event type introspection
AfterEventType(b, eventFields) ==
  LET timestampField ==
        pickField(eventFields, <<"timestamp", "blockTimestamp", "block_timestamp">>)
      roles ==
        [id |-> pickField(eventFields, <<"id">>),
         timestamp |-> timestampField,
         txHash |-> pickField(eventFields, <<"txHash", "transactionHash", "hash">>),
         logIndex |-> pickField(eventFields, <<"logIndex", "log_index">>),
         blockNumber |-> pickField(eventFields, <<"blockNumber", "block_number">>),
         action |-> pickField(eventFields, <<"action", "eventType", "type">>),
         amount |-> pickField(eventFields,
                              <<"amount", "value", "amountBeforeFee", "amountAfterFee">>),
         amountUsd |-> pickField(eventFields,
                                 <<"amountUSD", "amountUsd", "amountInUSD", "amount_usd">>)]
  IN  IF Len(eventFields) = 0
      THEN Suspend([b EXCEPT !.cfg = [EmptyAaveConfig EXCEPT
                                        !.queryField = b.qf.name,
                                        !.eventTypeName = b.cfg.eventTypeName,
                                        !.fields = GuessedRoles,
                                        !.orderByField = "timestamp",
                                        !.fallbackEventType = b.qf.name]],
                   "done", NONE)
      ELSE IF timestampField = NONE THEN NoBuild
      ELSE EnterReserve(
             [b EXCEPT !.eventFields = eventFields,
                       !.cfg.fields = roles,
                       !.cfg.orderByField = timestampField,
                       !.cfg.reserveField =
                           pickField(eventFields,
                                     <<"asset", "market", "reserve", "token", "inputToken">>),
                       !.cfg.assetField = pickField(eventFields, <<"asset">>),
                       !.cfg.positionField = pickField(eventFields, <<"position">>)])

\* The continuation of the request the invocation is suspended on; fields is
\* the field list of the response (?? [] applied).
BuildResume(b, fields) ==
  CASE b.stage = "eventType" -> AfterEventType(b, fields)
    [] b.stage = "reserveType" ->
         \* lines 778-786
         LET nested == pickField(fields, <<"asset", "inputToken", "inputTokens",
                                           "outputToken", "token">>)
             b1 == [b EXCEPT !.reserveTypeFields = fields,
                             !.cfg.reserveNestedField = nested]
         IN  IF nested # NONE THEN Suspend(b1, "reserveDetailed", b.reserveTypeName)
             ELSE EnterPosition(WithReserveFields(b1))
    [] b.stage = "reserveDetailed" ->
         \* lines 803-808
         LET nestedTypeName ==
               unwrapTypeName(FindField(fields, b.cfg.reserveNestedField).type)
         IN  IF nestedTypeName # NONE THEN Suspend(b, "nestedType", nestedTypeName)
             ELSE EnterPosition(WithReserveFields(b))
    [] b.stage = "nestedType" ->
         \* lines 822-831
         EnterPosition(WithReserveFields(
           [b EXCEPT !.cfg.reserveNestedFields =
              AssetNames(pickField(fields, <<"symbol", "name">>),
                         pickField(fields, <<"id", "tokenAddress", "address">>),
                         pickField(fields, <<"decimals">>))]))
    [] b.stage = "positionType" ->
         \* lines 874-880
         LET market == pickField(fields, <<"market">>)
             marketTypeName ==
               IF market = NONE THEN NONE
               ELSE unwrapTypeName(FindField(fields, market).type)
             b1 == [b EXCEPT !.cfg.positionMarketField = market]
         IN  IF marketTypeName # NONE THEN Suspend(b1, "marketType", marketTypeName)
             ELSE EnterWhere(b1)
    [] b.stage = "marketType" ->
         \* lines 897-912
         LET token == pickField(fields, <<"inputToken", "outputToken", "asset", "token">>)
             tokenList == pickField(fields, <<"inputTokens">>)
             tokenTypeName == unwrapTypeName(FindField(fields, Or(token, tokenList)).type)
             b1 == [b EXCEPT !.cfg.positionMarketTokenField = token,
                             !.cfg.positionMarketTokenListField = tokenList]
         IN  IF tokenTypeName # NONE THEN Suspend(b1, "tokenType", tokenTypeName)
             ELSE EnterWhere(b1)
    [] b.stage = "tokenType" ->
         \* lines 926-932
         EnterWhere([b EXCEPT !.cfg.positionMarketTokenFields =
           AssetNames(Or(pickField(fields, <<"symbol", "name">>), "symbol"),
                      Or(pickField(fields, <<"id", "tokenAddress", "address">>), "id"),
                      Or(pickField(fields, <<"decimals">>), "decimals"))])
    [] b.stage = "whereType" ->
         \* lines 964-979
         Suspend([b EXCEPT
                    !.cfg.whereUserField =
                        pickField(fields, <<"user", "account", "from", "to", "user_",
                                            "account_", "from_", "to_">>),
                    !.cfg.whereTimestampField =
                        pickField(fields, <<"timestamp_gte", "blockTimestamp_gte",
                                            "timestamp_gt">>)],
                "done", NONE)

\* ---------------------------------------------- resolveAaveSchemaConfig
Names(fields) == [i \in 1..Len(fields) |-> fields[i].name]
HasConfig(configs, name) == \E i \in 1..Len(configs) : configs[i].queryField = name

\* An error value: the message, and the names a message enumerates.
Error(message, available) == [message |-> message, available |-> available]
NoError == Error(NONE, <<>>)

\* The state of one resolver coroutine: phase "root" while the schema
\* introspection is outstanding, "direct" and "loop" while a
\* buildAaveConfigFromField invocation is suspended (idx is the position in
\* fields), "return" and "throw" once it has settled.
Resolver(phase, idx, fields, configs, b, error) ==
  [phase |-> phase, idx |-> idx, fields |-> fields, configs |-> configs, b |-> b,
   error |-> error]
Returned(configs) == Resolver("return", 0, <<>>, configs, NoBuild, NoError)
Thrown(error) == Resolver("throw", 0, <<>>, <<>>, NoBuild, error)
Settled(r) == r.phase \in {"return", "throw"}

\* lines 607-624
MinimalConfig(field) ==
  [EmptyAaveConfig EXCEPT
     !.queryField = field.name,
     !.eventTypeName = Or(unwrapTypeName(field.type), field.name),
     !.fields = GuessedRoles,
     !.orderByField = "timestamp",
     !.fallbackEventType = field.name,
     !.whereUserField = "user",
     !.requiresWhere = TRUE]

\* lines 597-625
RECURSIVE EnsureBorrowRepay(_, _, _)
EnsureBorrowRepay(fields, configs, names) ==
  IF names = <<>> THEN configs
  ELSE LET name == Head(names)
           field == FindField(fields, name)
       IN  IF HasConfig(configs, name) \/ field.name = NONE
              \/ HasUnsupportedRequired(field)
           THEN EnsureBorrowRepay(fields, configs, Tail(names))
           ELSE EnsureBorrowRepay(fields, Append(configs, MinimalConfig(field)),
                                  Tail(names))

fallbackNames ==
  {"deposits", "withdraws", "borrows", "repays", "liquidates", "transfers",
   "flashloans", "events", "event"}

\* lines 646-657
NameOnlyConfig(field) ==
  [EmptyAaveConfig EXCEPT
     !.queryField = field.name,
     !.eventTypeName = field.name,
     !.fields = [NoRoles EXCEPT !.id = "id", !.timestamp = "timestamp",
                                !.amount = "amount", !.amountUsd = "amountUSD"],
     !.orderByField = "timestamp",
     !.fallbackEventType = field.name]

\* lines 595-664: what the resolver does after the loop over the root fields
ResolveTail(fields, configs0) ==
  LET configs == EnsureBorrowRepay(fields, configs0, <<"borrows", "repays">>)
      fallbackFields == SelectSeq(fields, LAMBDA f : f.name \in fallbackNames)
  IN  IF Len(configs) > 0 THEN Returned(configs)
      ELSE IF Len(fallbackFields) > 0
      THEN Returned([i \in 1..Len(fallbackFields) |-> NameOnlyConfig(fallbackFields[i])])
      ELSE Thrown(Error("Aave subgraph has no transaction query field. Available: ",
                        Names(fields)))

\* lines 587-593: the loop over the root fields from position i on, up to the
\* next await
RECURSIVE ResolveLoop(_, _, _)
ResolveLoop(fields, configs, i) ==
  IF i > Len(fields) THEN ResolveTail(fields, configs)
  ELSE IF HasConfig(configs, fields[i].name) THEN ResolveLoop(fields, configs, i + 1)
  ELSE LET b == BuildStart(fields[i])
       IN  IF b.stage = "null" THEN ResolveLoop(fields, configs, i + 1)
           ELSE Resolver("loop", i, fields, configs, b, NoError)

\* A buildAaveConfigFromField invocation has moved to b: stay suspended, or
\* take its result (lines 584, 592) and go on with the loop.
ResolveWith(r, b) ==
  IF b.stage \notin {"done", "null"} THEN [r EXCEPT !.b = b]
  ELSE ResolveLoop(r.fields,
                   IF b.stage = "done" THEN Append(r.configs, b.cfg) ELSE r.configs,
                   IF r.phase = "direct" THEN 1 ELSE r.idx + 1)

namedCandidates ==
  <<"userTransactions", "transactions", "userTransaction", "userTransactionsV2",
    "userActivities", "userActivity", "activities", "events">>

\* lines 561-585: the continuation of the schema introspection
ResolveAfterRoot(fields) ==
  LET byPart(part) ==
        LET hits == {i \in 1..Len(fields) : LowerIncludes(fields[i].name, part)}
        IN  IF hits = {} THEN NONE
            ELSE fields[CHOOSE i \in hits : \A j \in hits : i <= j].name
      queryFieldName ==
        Or(pickField(fields, namedCandidates), Or(byPart("transaction"), byPart("activity")))
      directMatch == FindField(fields, queryFieldName)
  IN  IF directMatch.name = NONE THEN ResolveLoop(fields, <<>>, 1)
      ELSE ResolveWith(Resolver("direct", 0, fields, <<>>, NoBuild, NoError),
                       BuildStart(directMatch))

\* The resolver receives the result of the request it is suspended on.
resolveAaveSchemaConfig(r, shape) ==
  IF r.phase = "root" THEN ResolveAfterRoot(ServeRoot(shape))
  ELSE ResolveWith(r, BuildResume(r.b,
                                  IF r.b.stage = "whereType"
                                  THEN ServeInput(shape, r.b.req)
                                  ELSE ServeType(shape, r.b.req)))

\* ------------------------------------------ resolveCompoundSchemaConfig
NoCompoundRoles ==
  [id |-> NONE, timestamp |-> NONE, txHash |-> NONE, logIndex |-> NONE,
   blockNumber |-> NONE, eventType |-> NONE, amount |-> NONE, amountUsd |-> NONE]
NoAssetFields == [defined |-> FALSE, id |-> NONE, symbol |-> NONE, decimals |-> NONE]
EmptyCompoundConfig ==
  [queryField |-> NONE, eventTypeName |-> NONE, fields |-> NoCompoundRoles,
   whereAccountField |-> NONE, whereTimestampField |-> NONE, orderByField |-> NONE,
   assetField |-> NONE, assetFields |-> NoAssetFields]

\* lines 1304-1308: the where input type, or the config is complete
CompoundEnterWhere(b) ==
  LET w == FirstIndex(b.qf.args, {"where"})
      whereTypeName == IF w = 0 THEN NONE ELSE unwrapTypeName(b.qf.args[w].type)
  IN  IF whereTypeName # NONE THEN Suspend(b, "whereType", whereTypeName)
      ELSE Suspend(b, "done", NONE)

\* lines 1221-1251: the continuation of the schema introspection
CompoundAfterRoot(fields) ==
  LET hits == {i \in 1..Len(fields) : LowerIncludes(fields[i].name, "event")}
      queryFieldName ==
        Or(pickField(fields, <<"accountEvents", "events", "accountEvent", "event">>),
           Or(IF hits = {} THEN NONE
              ELSE fields[CHOOSE i \in hits : \A j \in hits : i <= j].name,
              "accountEvents"))
      queryField == FindField(fields, queryFieldName)
      eventTypeName == unwrapTypeName(queryField.type)
      b == [NoBuild EXCEPT !.qf = queryField,
                           !.cfg = [EmptyCompoundConfig EXCEPT
                                      !.queryField = queryField.name,
                                      !.eventTypeName = eventTypeName]]
  IN  IF queryField.name = NONE
      THEN Thrown(Error("Compound subgraph has no event query field.", <<>>))
      ELSE IF eventTypeName = NONE
      THEN Thrown(Error("Compound subgraph event type not found.", <<>>))
      ELSE Resolver("direct", 0, fields, <<>>, Suspend(b, "eventType", eventTypeName),
                    NoError)

\* lines 1253-1355: the continuation of the request b is suspended on
CompoundResume(b, fields) ==
  CASE b.stage = "eventType" ->
         LET timestampField ==
               pickField(fields, <<"timestamp", "blockTimestamp", "block_timestamp">>)
             assetField == pickField(fields, <<"asset", "token">>)
             assetTypeName ==
               IF assetField = NONE THEN NONE
               ELSE unwrapTypeName(FindField(fields, assetField).type)
             b1 == [b EXCEPT
               !.cfg.fields =
                  [id |-> pickField(fields, <<"id">>),
                   timestamp |-> timestampField,
                   txHash |-> pickField(fields, <<"transactionHash", "txHash", "hash">>),
                   logIndex |-> pickField(fields, <<"logIndex", "log_index">>),
                   blockNumber |-> pickField(fields, <<"blockNumber", "block_number">>),
                   eventType |-> pickField(fields, <<"eventType", "type", "action">>),
                   amount |-> pickField(fields,
                                        <<"amount", "amountBeforeFee", "amountAfterFee">>),
                   amountUsd |-> pickField(fields, <<"amountUsd", "amountUSD",
                                                     "amount_usd", "amountInUSD">>)],
               !.cfg.orderByField = timestampField,
               !.cfg.assetField = assetField]
         IN  IF assetTypeName # NONE THEN Suspend(b1, "assetType", assetTypeName)
             ELSE CompoundEnterWhere(b1)
    [] b.stage = "assetType" ->
         CompoundEnterWhere(
           [b EXCEPT !.cfg.assetFields =
              [defined |-> TRUE,
               id |-> pickField(fields, <<"id", "tokenAddress", "address">>),
               symbol |-> pickField(fields, <<"symbol", "name">>),
               decimals |-> pickField(fields, <<"decimals">>)]])
    [] b.stage = "whereType" ->
         Suspend([b EXCEPT
                    !.cfg.whereAccountField =
                        pickField(fields, <<"account", "user", "account_", "user_">>),
                    !.cfg.whereTimestampField =
                        pickField(fields, <<"timestamp_gte", "blockTimestamp_gte",
                                            "timestamp_gt">>)],
                 "done", NONE)

\* The resolver receives the result of the request it is suspended on; the
\* one config it returns is kept as a list of length one.
resolveCompoundSchemaConfig(r, shape) ==
  IF r.phase = "root" THEN CompoundAfterRoot(ServeRoot(shape))
  ELSE LET b == CompoundResume(r.b, IF r.b.stage = "whereType"
                                    THEN ServeInput(shape, r.b.req)
                                    ELSE ServeType(shape, r.b.req))
       IN  IF b.stage = "done" THEN Returned(<<b.cfg>>) ELSE [r EXCEPT !.b = b]

\* ------------------------------------------------------------ the state
Protocols == {"aave", "compound"}
Chains == {"polygon", "arbitrum"}
Addresses == {"0xAbC"}
\* the fromTimestamp values callers pass: before the epoch and a watermark
FromTimestamps == {-1, 100}
toLowerCase(address) == IF address = "0xAbC" THEN "0xabc" ELSE address
\* The invocations of one behaviour, numbered in the order in which they start.
Calls == {1, 2}
Before(c) == {b \in Calls : b < c}

SUPPORTED_AAVE_CHAINS == {"polygon", "arbitrum"}
SUPPORTED_COMPOUND_CHAINS == {"arbitrum"}
parseAaveChain(value) == IF value \in SUPPORTED_AAVE_CHAINS THEN value ELSE NONE
parseCompoundChain(value) == IF value \in SUPPORTED_COMPOUND_CHAINS THEN value ELSE NONE

Urls == {"https://aave-polygon", "https://aave-arbitrum", "https://compound-arbitrum"}

\* The deployments the model runs in: which subgraph URLs the process
\* environment sets, and the shape of the service behind each URL.
Env(aavePolygon, aaveArbitrum, compoundArbitrum, compoundBase) ==
  [AAVE_SUBGRAPHS |-> [polygon |-> aavePolygon, arbitrum |-> aaveArbitrum],
   COMPOUND_SUBGRAPHS |-> [arbitrum |-> compoundArbitrum, base |-> compoundBase]]
Serves(aavePolygon, aaveArbitrum, compoundArbitrum) ==
  [u \in Urls |-> CASE u = "https://aave-polygon" -> aavePolygon
                    [] u = "https://aave-arbitrum" -> aaveArbitrum
                    [] u = "https://compound-arbitrum" -> compoundArbitrum]
Deployments ==
  {[env |-> Env("https://aave-polygon", "https://aave-arbitrum", NONE, NONE),
    serves |-> Serves("AaveStd", "AaveDirect", "CompoundStd")],
   [env |-> Env("https://aave-polygon", NONE, "https://compound-arbitrum", NONE),
    serves |-> Serves("AaveUnusable", "AaveDirect", "CompoundStd")],
   [env |-> Env("https://aave-polygon", "https://aave-arbitrum", NONE, NONE),
    serves |-> Serves("AaveNoField", "AaveOpaque", "CompoundStd")],
   [env |-> Env("https://aave-polygon", NONE, "https://compound-arbitrum", NONE),
    serves |-> Serves("AaveReserve", "AaveDirect", "CompoundNoField")]}
ShapeOf(id) ==
  CASE id = "AaveStd" -> ShapeAaveStd
    [] id = "AaveDirect" -> ShapeAaveDirect
    [] id = "AaveUnusable" -> ShapeAaveUnusable
    [] id = "AaveReserve" -> ShapeAaveReserve
    [] id = "AaveNoField" -> ShapeAaveNoField
    [] id = "AaveOpaque" -> ShapeAaveOpaque
    [] id = "CompoundStd" -> ShapeCompoundStd
    [] id = "CompoundNoField" -> ShapeCompoundNoField

VARIABLES
  env,                  \* AAVE_SUBGRAPHS and COMPOUND_SUBGRAPHS (lines 109-117)
  serves,               \* the shape of the service behind each URL
  aaveSchemaCache,      \* line 121: URL -> promise (0: no entry)
  compoundSchemaCache,  \* line 120: URL -> promise (0: no entry)
  promises,             \* the promises the caches hold, with their resolver coroutines
  calls,                \* the fetchSubgraphEvents invocations
  failures,             \* the number of requests that have failed so far
  routes,               \* the wallet syncs of the two sync routes
  strategy_event_sync,  \* table strategy_event_sync: wallet -> watermark row
  strategy_events,      \* table strategy_events: the stored event rows
  eval,                 \* the last application of one of the pure helpers
  pool                  \* one mapWithConcurrency invocation

engineVars == <<env, serves, aaveSchemaCache, compoundSchemaCache, promises, calls, failures>>
storeVars == <<routes, strategy_event_sync, strategy_events>>
helperVars == <<eval, pool>>
vars == <<env, serves, aaveSchemaCache, compoundSchemaCache, promises, calls, failures,
          routes, strategy_event_sync, strategy_events, eval, pool>>

\* getSubgraphUrl falling back to the default chain of the protocol when the
\* chain is not a supported one.
getSubgraphUrlDefault(protocol, chain) ==
  IF protocol = "compound"
  THEN env.COMPOUND_SUBGRAPHS[Or(parseCompoundChain(chain), "arbitrum")]
  ELSE env.AAVE_SUBGRAPHS[Or(parseAaveChain(chain), "polygon")]

\* lines 123-130
getSubgraphUrl(protocol, chain) ==
  IF protocol = "compound"
  THEN (LET parsed == parseCompoundChain(chain)
        IN  IF parsed # NONE THEN env.COMPOUND_SUBGRAPHS[parsed] ELSE NONE)
  ELSE (LET parsed == parseAaveChain(chain)
        IN  IF parsed # NONE THEN env.AAVE_SUBGRAPHS[parsed] ELSE NONE)

\* ----------------------------------------------------------- postGraphQL
\* What one POST can come back with: a response with a status and a body that
\* is unparsable, lacks data (with or without errors) or carries data.
Responses ==
  {[ok |-> TRUE, payload |-> "unparsable"],
   [ok |-> TRUE, payload |-> "empty"],
   [ok |-> TRUE, payload |-> "errors"],
   [ok |-> FALSE, payload |-> "data"],
   [ok |-> TRUE, payload |-> "data"]}

\* postGraphQL that hands back whatever body it got.
postGraphQLLenient(response) == NoError

\* lines 137-151: the error postGraphQL throws for a response, NoError when it
\* returns payload.data
\* A non-2xx status, an unparsable body or a body without data.
TransportFailure(response) ==
  ~response.ok \/ response.payload \in {"unparsable", "empty", "errors"}

postGraphQL(response) ==
  IF ~response.ok \/ response.payload # "data"
  THEN Error(IF response.payload = "errors" THEN "indexer error message"
             ELSE "Subgraph request failed.", <<>>)
  ELSE NoError

\* --------------------------------------------------------------- calls
\* One fetchSubgraphEvents invocation.  pc: "idle" (not invoked), "schema"
\* (suspended on the schema promise), "page" (suspended on a page request),
\* "returned", "threw".  sent lists the requests the invocation itself has
\* issued, in order; capAt is the length of sent when the maxEvents cap was
\* reached (0: not reached); pages lists the length of every page received;
\* transport tells that a request of the invocation came back without usable
\* data.
IdleCall ==
  [pc |-> "idle", protocol |-> NONE, chain |-> NONE, address |-> NONE, fromTimestamp |-> 0,
   maxEvents |-> 0,
   url |-> NONE, promise |-> 0, schemas |-> <<>>, si |-> 0, skip |-> 0, events |-> <<>>,
   result |-> <<>>, error |-> NoError, sent |-> <<>>, pages |-> <<>>, capAt |-> 0,
   transport |-> FALSE, found |-> NONE]

Request(kind, field, skip, user, from) ==
  [kind |-> kind, field |-> field, skip |-> skip, user |-> user, from |-> from]
\* Math.max(0, Math.floor(fromTimestamp)) of lines 358 and 1134
FromVariable(fromTimestamp) == IF fromTimestamp > 0 THEN fromTimestamp ELSE 0

\* Every page request carrying skip 0.
PageRequestNoSkip(call, field, skip) ==
  Request("page", field, 0, toLowerCase(call.address), FromVariable(call.fromTimestamp))

\* lines 354-360 and 1129-1136
PageRequest(call, field, skip) ==
  Request("page", field, skip, toLowerCase(call.address), FromVariable(call.fromTimestamp))
\* the fire-and-forget POSTs of lines 284-295, 299-310 and 504-515
AgentLog(location, field) == Request("agentLog:" \o location, field, 0, NONE, 0)

\* fetchSubgraphEvents not handing maxEvents on to the adapter.
LimitIgnored(maxEvents) == 0

\* lines 273 and 1126; 0 stands for null
Limit(maxEvents) == IF maxEvents # 0 /\ maxEvents > 0 THEN maxEvents ELSE 0

\* lines 276-282: [...schemas].sort(borrowFirst), a stable sort
want(q) == LowerIncludes(q, "borrow") \/ LowerIncludes(q, "repay")
borrowFirst(a, b) ==
  IF want(a.queryField) /\ ~want(b.queryField) THEN -1
  ELSE IF ~want(a.queryField) /\ want(b.queryField) THEN 1
  ELSE 0
RECURSIVE InsertSorted(_, _)
InsertSorted(sorted, x) ==
  IF sorted = <<>> THEN <<x>>
  ELSE IF borrowFirst(x, sorted[Len(sorted)]) < 0
       THEN Append(InsertSorted(SubSeq(sorted, 1, Len(sorted) - 1), x), sorted[Len(sorted)])
       ELSE Append(sorted, x)
\* The schemas queried in the order of the resolved list.
SortSchemasNone(schemas) == schemas

RECURSIVE SortSchemas(_)
SortSchemas(schemas) ==
  IF schemas = <<>> THEN <<>>
  ELSE InsertSorted(SortSchemas(SubSeq(schemas, 1, Len(schemas) - 1)), schemas[Len(schemas)])

\* v ? v : null, and v && typeof v === "object" ? v : null
ValueOrNull(v) == IF Truthy(v) THEN v ELSE Null
ObjectOrNull(v) == IF Truthy(v) /\ IsObject(v) THEN v ELSE Null
\* typeof v === "string" ? v : other, for a truthy test of v
IsNonEmptyString(v) == v.t = "string" /\ Truthy(v)

\* lines 363-366, 374-377: raw[field] of a resolved field, or null
RawValue(raw, field) == IF field # NONE THEN ValueOrNull(Get(raw, field)) ELSE Null
\* lines 368-373
assetValue(schema, raw) ==
  IF schema.assetField # NONE /\ Truthy(Get(raw, schema.assetField))
  THEN Get(raw, schema.assetField)
  ELSE ObjectOrNull(Get(raw, "asset"))
\* lines 382-389
positionMarket(schema, position) ==
  IF schema.positionMarketField # NONE
  THEN ObjectOrNull(Prop(position, schema.positionMarketField))
  ELSE Null
\* lines 390-395
positionTokenValue(schema, market) ==
  IF Truthy(market) /\ schema.positionMarketTokenField # NONE
  THEN Prop(market, schema.positionMarketTokenField)
  ELSE IF schema.positionMarketTokenListField # NONE
  THEN Prop(market, schema.positionMarketTokenListField)
  ELSE Null
\* lines 396-402
positionToken(value) == IF IsArray(value) THEN FirstOrNull(value) ELSE ObjectOrNull(value)
\* lines 411-420
NestedOf(nestedValue) ==
  IF ~Truthy(nestedValue) THEN Null
  ELSE IF IsArray(nestedValue) THEN FirstOrNull(nestedValue)
  ELSE Coalesce(nestedValue, Null)
nestedReserve(schema, reserve) ==
  IF schema.reserveNestedField # NONE THEN NestedOf(Prop(reserve, schema.reserveNestedField))
  ELSE Null
\* lines 421-422
reserveAsString(reserveValue) == IF reserveValue.t = "string" THEN reserveValue ELSE Null

\* lines 363-422: the nested values of a raw record the asset roles are read
\* from
AaveParts(schema, raw) ==
  [reserve |-> ObjectOrNull(RawValue(raw, schema.reserveField)),
   asset |-> ObjectOrNull(assetValue(schema, raw)),
   positionToken |->
     positionToken(positionTokenValue(schema,
       positionMarket(schema, ObjectOrNull(RawValue(raw, schema.positionField))))),
   reserveAsString |-> reserveAsString(RawValue(raw, schema.reserveField))]

\* cond(v) ? v : other
StringOr(v, other) == IF IsNonEmptyString(v) THEN v ELSE other

\* lines 440-458
AaveAssetAddress(schema, parts) ==
  IF schema.reserveNestedFields.underlyingAsset # NONE
  THEN Prop(nestedReserve(schema, parts.reserve), schema.reserveNestedFields.underlyingAsset)
  ELSE IF schema.reserveFields.underlyingAsset # NONE
  THEN Prop(parts.reserve, schema.reserveFields.underlyingAsset)
  ELSE StringOr(Prop(parts.reserve, "id"),
         StringOr(Prop(parts.asset, "id"),
           IF schema.positionMarketTokenFields.underlyingAsset # NONE
           THEN Prop(parts.positionToken, schema.positionMarketTokenFields.underlyingAsset)
           ELSE StringOr(Prop(parts.positionToken, "id"),
                         Coalesce(parts.reserveAsString, Undefined))))

\* lines 459-474
AaveAssetSymbol(schema, parts) ==
  IF schema.reserveNestedFields.symbol # NONE
  THEN Prop(nestedReserve(schema, parts.reserve), schema.reserveNestedFields.symbol)
  ELSE IF schema.reserveFields.symbol # NONE
  THEN Prop(parts.reserve, schema.reserveFields.symbol)
  ELSE StringOr(Prop(parts.reserve, "symbol"),
         StringOr(Prop(parts.asset, "symbol"),
           IF schema.positionMarketTokenFields.symbol # NONE
           THEN Prop(parts.positionToken, schema.positionMarketTokenFields.symbol)
           ELSE StringOr(Prop(parts.positionToken, "symbol"), Undefined)))

\* lines 423-500: the arguments fetchAaveEvents hands to normalizeEvent
AaveParams(schema, item) ==
  [txHash |-> Coalesce(Get(item.raw, schema.fields.txHash),
                       Coalesce(Get(item.raw, "id"), Str(""))),
   logIndex |-> Get(item.raw, schema.fields.logIndex),
   blockNumber |-> Get(item.raw, schema.fields.blockNumber),
   timestamp |-> Get(item.raw, schema.fields.timestamp),
   eventType |-> IF schema.fields.action # NONE THEN Get(item.raw, schema.fields.action)
                 ELSE IF schema.fallbackEventType # NONE THEN Str(schema.fallbackEventType)
                 ELSE Undefined,
   assetAddress |-> AaveAssetAddress(schema, AaveParts(schema, item.raw)),
   assetSymbol |-> AaveAssetSymbol(schema, AaveParts(schema, item.raw)),
   amountUsdRaw |-> Get(item.raw, schema.fields.amountUsd),
   src |-> item.src]

\* lines 1139-1142
CompoundAsset(schema, raw) ==
  IF schema.assetField # NONE /\ Truthy(Get(raw, schema.assetField))
  THEN Get(raw, schema.assetField) ELSE Null

\* lines 1143-1176: the arguments fetchCompoundEvents hands to normalizeEvent
CompoundParams(schema, item) ==
  [txHash |-> Coalesce(Get(item.raw, schema.fields.txHash),
                       Coalesce(Get(item.raw, "id"), Str(""))),
   logIndex |-> Get(item.raw, schema.fields.logIndex),
   blockNumber |-> Get(item.raw, schema.fields.blockNumber),
   timestamp |-> Get(item.raw, schema.fields.timestamp),
   eventType |-> Get(item.raw, schema.fields.eventType),
   assetAddress |-> IF schema.assetFields.id # NONE
                    THEN Prop(CompoundAsset(schema, item.raw), schema.assetFields.id)
                    ELSE Undefined,
   assetSymbol |-> IF schema.assetFields.symbol # NONE
                   THEN Prop(CompoundAsset(schema, item.raw), schema.assetFields.symbol)
                   ELSE Undefined,
   amountUsdRaw |-> Get(item.raw, schema.fields.amountUsd),
   src |-> item.src]

\* The page loop without the early return: the cap does not stop the page.
RECURSIVE AccumulateNoReturn(_, _, _, _)
AccumulateNoReturn(events, normalized, i, limit) ==
  IF i > Len(normalized) THEN [events |-> events, returned |-> FALSE]
  ELSE AccumulateNoReturn(IF normalized[i].t = "event" THEN Append(events, normalized[i])
                          ELSE events,
                          normalized, i + 1, limit)

\* The page loop leaving the page at the first record that normalizes to null.
RECURSIVE AccumulateAbort(_, _, _, _)
AccumulateAbort(events, normalized, i, limit) ==
  IF i > Len(normalized) \/ normalized[i].t # "event"
  THEN [events |-> events, returned |-> FALSE]
  ELSE LET pushed == Append(events, normalized[i])
       IN  IF limit # 0 /\ Len(pushed) >= limit
           THEN [events |-> SubSeq(pushed, 1, limit), returned |-> TRUE]
           ELSE AccumulateAbort(pushed, normalized, i + 1, limit)

\* lines 501-518 and 1177-1180: the records of one page, already normalized,
\* from position i on: survivors are pushed and the cap is tested after every
\* record
RECURSIVE Accumulate(_, _, _, _)
Accumulate(events, normalized, i, limit) ==
  IF i > Len(normalized) THEN [events |-> events, returned |-> FALSE]
  ELSE LET pushed == IF normalized[i].t = "event" THEN Append(events, normalized[i])
                     ELSE events
       IN  IF limit # 0 /\ Len(pushed) >= limit
           THEN [events |-> SubSeq(pushed, 1, limit), returned |-> TRUE]
           ELSE Accumulate(pushed, normalized, i + 1, limit)

\* Paging on until a page comes back empty.
ShortPageEmpty(batch) == Len(batch) = 0

\* batch.length < PAGE_SIZE (lines 520 and 1182)
ShortPage(batch) == Len(batch) < PAGE_SIZE

\* One cache entry shared by every endpoint URL.
CacheKeyShared(url) == CHOOSE u \in Urls : TRUE

\* The key of the schema caches is the endpoint URL (lines 531-534, 1189-1192).
CacheKey(url) == url

\* The sort of line 282 done on the cached array itself.
CachedAfterSortInPlace(cached, sorted) == sorted

\* [...schemas].sort(borrowFirst) of line 282 sorts a copy: the array the
\* cached promise resolved to stays as it was.
CachedAfterSort(cached, sorted) == cached

\* A cache lookup that never finds the entry.
CacheHasNever(cache, url) == FALSE

\* if (!cache.has(url)) of lines 531 and 1189
CacheHas(cache, url) == cache[url] # 0

\* A request fails (failure is the error of postGraphQL) only while the
\* behaviour has failures left.
Fails(failure) ==
  IF failure = NoError THEN failures' = failures
  ELSE failures < MaxFailures /\ failures' = failures + 1

NewPromise(protocol, url) ==
  [protocol |-> protocol, url |-> url,
   r |-> Resolver("root", 0, <<>>, <<>>, NoBuild, NoError),
   requests |-> <<[kind |-> "root", name |-> NONE]>>,
   transport |-> FALSE]

\* ---------------------------------------------------------- sync routes
\* Table user_wallets.  The wallet without a protocol is synced as an Aave
\* wallet by the manual route and left out by the scheduled route.
WalletRow(id, user_id, address, chain, protocol) ==
  [id |-> id, user_id |-> user_id, address |-> address, chain |-> chain,
   protocol |-> protocol]
user_wallets ==
  {WalletRow("w1", "u1", "0xAbC", "polygon", Str("aave")),
   WalletRow("w2", "u1", "0xAbC", "arbitrum", Str("compound")),
   WalletRow("w3", "u1", "0xAbC", "arbitrum", Null),
   WalletRow("w4", "u1", "", "polygon", Null)}
WalletIds == {w.id : w \in user_wallets}
WalletOf(id) == CHOOSE w \in user_wallets : w.id = id
Users == {"u1"}
\* viem's isAddress for the addresses of the model
isAddress(address) == address \in Addresses

\* A row of strategy_event_sync; NoSyncRow: the wallet has no row.
SyncRow(timestamp, block) ==
  [last_synced_timestamp |-> timestamp, last_synced_block |-> block]
NoSyncRow == SyncRow(Undefined, Undefined)

\* sync/route.ts lines 39-41, cron/events-sync/route.ts lines 57-59
toTimestamp(value) == IF IsFinite(Coalesce(value, NaN)) THEN value.n ELSE 0

\* One wallet sync.  kind: "manual" (a POST of the manual route) or "cron"
\* (one mapper of a GET of the scheduled route).  pc: "idle", "fetch"
\* (suspended on fetchSubgraphEvents), "upsert" (suspended on the upsert of
\* the batch that starts at row next), "watermark" and "emptyMark" (suspended
\* on the upsert of the watermark), "done".  inserts are the rows of the
\* sync and lookups the outcome of the price lookup of each row; response is
\* what the sync reports.
Response(status, error, detail, synced) ==
  [status |-> status, error |-> error, detail |-> detail, synced |-> synced]
NoResponse == Response(0, NONE, NONE, 0)
IdleRoute ==
  [pc |-> "idle", kind |-> NONE, wallet |-> NONE, includePrices |-> FALSE, now |-> 0,
   lastTimestamp |-> 0, lastBlock |-> 0, inserts |-> <<>>, lookups |-> <<>>, next |-> 0,
   response |-> NoResponse]

\* no helper has been applied; mapWithConcurrency has not been invoked
NoEval == [op |-> NONE]
NoPool == [pc |-> "idle"]

Init ==
  /\ \E d \in Deployments : env = d.env /\ serves = d.serves
  /\ routes = [c \in Calls |-> IdleRoute]
  /\ strategy_event_sync = [w \in WalletIds |-> NoSyncRow]
  /\ strategy_events = {}
  /\ eval = NoEval
  /\ pool = NoPool
  /\ aaveSchemaCache = [u \in Urls |-> 0]
  /\ compoundSchemaCache = [u \in Urls |-> 0]
  /\ promises = <<>>
  /\ calls = [c \in Calls |-> IdleCall]
  /\ failures = 0

\* lines 247-264, 266-274, 530-535, 1092-1098, 1188-1193: fetchSubgraphEvents
\* up to its first await.  A resolver that is started sends the schema
\* introspection before it suspends.
fetchSubgraphEvents(c, protocol, chain, address, fromTimestamp, maxEvents) ==
  LET url == getSubgraphUrl(protocol, chain)
      call == [IdleCall EXCEPT !.protocol = protocol, !.chain = chain,
                               !.address = address, !.fromTimestamp = fromTimestamp,
                               !.maxEvents = maxEvents,
                               !.url = url]
      cache == IF protocol = "compound" THEN compoundSchemaCache ELSE aaveSchemaCache
      hit == CacheHas(cache, CacheKey(url))
      p == IF hit THEN cache[CacheKey(url)] ELSE Len(promises) + 1
  IN  /\ calls[c].pc = "idle"
      /\ \A b \in Before(c) : calls[b].pc # "idle" \/ routes[b].pc = "done"
      /\ IF url = NONE \/ url = ""
         THEN /\ calls' = [calls EXCEPT ![c] =
                   [call EXCEPT !.pc = "threw",
                                !.error = Error("Missing subgraph URL for protocol/chain.",
                                                <<>>)]]
              /\ UNCHANGED <<aaveSchemaCache, compoundSchemaCache, promises>>
         ELSE /\ calls' = [calls EXCEPT ![c] =
                   [call EXCEPT !.pc = "schema", !.promise = p,
                                !.found = IF hit /\ p \in 1..Len(promises)
                                          THEN promises[p].r.phase ELSE "miss"]]
              /\ promises' = IF hit THEN promises
                             ELSE Append(promises, NewPromise(protocol, url))
              /\ IF protocol = "compound"
                 THEN /\ compoundSchemaCache' = [compoundSchemaCache EXCEPT ![CacheKey(url)] = p]
                      /\ UNCHANGED aaveSchemaCache
                 ELSE /\ aaveSchemaCache' = [aaveSchemaCache EXCEPT ![CacheKey(url)] = p]
                      /\ UNCHANGED compoundSchemaCache
      /\ UNCHANGED <<env, serves, failures>>

\* A resolver coroutine receives the response of the request it is suspended
\* on and runs to its next await or to its end (lines 537-665, 667-1013,
\* 1195-1355); an error of postGraphQL rejects the promise.
Resolve(p, response) ==
  LET promise == promises[p]
      shape == ShapeOf(serves[promise.url])
      failure == postGraphQL(response)
      r == IF failure # NoError THEN Thrown(failure)
           ELSE IF promise.protocol = "compound"
           THEN resolveCompoundSchemaConfig(promise.r, shape)
           ELSE resolveAaveSchemaConfig(promise.r, shape)
  IN  /\ ~Settled(promise.r)
      /\ Fails(failure)
      /\ promises' = [promises EXCEPT ![p] =
           [@ EXCEPT !.r = r,
                     !.transport = TransportFailure(response),
                     !.requests = IF Settled(r) THEN @
                                  ELSE Append(@, [kind |-> r.b.stage, name |-> r.b.req])]]
      /\ UNCHANGED <<env, serves, aaveSchemaCache, compoundSchemaCache, calls>>

\* lines 297-361: the head of the loop over the schemas for schema number si,
\* up to the await of its first page; past the last schema the events are
\* returned (line 527)
AaveEnterSchema(call, si) ==
  IF si > Len(call.schemas)
  THEN [call EXCEPT !.pc = "returned", !.result = call.events]
  ELSE [call EXCEPT !.pc = "page", !.si = si, !.skip = 0,
                    !.sent = @ \o <<AgentLog("loop", call.schemas[si].queryField),
                                    PageRequest(call, call.schemas[si].queryField, 0)>>]

\* an await that resumes only when the promise is fulfilled
AwaitedWhenFulfilled(r) == r.phase = "return"
\* lines 274 and 1098: await of the schema promise; the caller resumes when
\* the promise is fulfilled or rejected
Awaited(r) == Settled(r)

\* lines 274-297: fetchAaveEvents resumes with the settled schema promise
AaveSchemaSettled(c) ==
  LET call == calls[c]
      r == promises[call.promise].r
      sorted == SortSchemas(r.configs)
  IN  /\ call.pc = "schema"
      /\ call.protocol = "aave"
      /\ Awaited(r)
      /\ calls' = [calls EXCEPT ![c] =
           IF r.phase = "throw" THEN [call EXCEPT !.pc = "threw", !.error = r.error]
           ELSE AaveEnterSchema([call EXCEPT !.schemas = sorted,
                                             !.sent = <<AgentLog("order", NONE)>>], 1)]
      /\ promises' = IF r.phase = "throw" THEN promises
                     ELSE [promises EXCEPT ![call.promise].r.configs =
                             CachedAfterSort(r.configs, sorted)]
      /\ UNCHANGED <<env, serves, aaveSchemaCache, compoundSchemaCache, failures>>

\* lines 361-527: fetchAaveEvents resumes with the response of a page request
AavePage(c, response) ==
  LET call == calls[c]
      schema == call.schemas[call.si]
      failure == postGraphQL(response)
      batch == ServePage(ShapeOf(serves[call.url]), schema.queryField, call.skip,
                         {schema.whereTimestampField, schema.directTimestampArg},
                         FromVariable(call.fromTimestamp))
      normalized == [i \in 1..Len(batch) |-> normalizeEvent(AaveParams(schema, batch[i]))]
      limit == Limit(call.maxEvents)
      acc == Accumulate(call.events, normalized, 1, limit)
      got == [call EXCEPT !.transport = TransportFailure(response)]
      seen == [got EXCEPT !.events = acc.events, !.pages = Append(@, Len(batch))]
  IN  /\ call.pc = "page"
      /\ call.protocol = "aave"
      /\ Fails(failure)
      /\ calls' = [calls EXCEPT ![c] =
           IF failure # NoError THEN [got EXCEPT !.pc = "threw", !.error = failure]
           ELSE IF acc.returned
           THEN [seen EXCEPT !.pc = "returned", !.result = acc.events,
                             !.capAt = Len(call.sent),
                             !.sent = Append(@, AgentLog("limit", schema.queryField))]
           ELSE IF ShortPage(batch)
           THEN (IF limit # 0 /\ Len(acc.events) >= limit
                 THEN [seen EXCEPT !.pc = "returned", !.result = acc.events]
                 ELSE AaveEnterSchema(seen, call.si + 1))
           ELSE [seen EXCEPT !.skip = @ + PAGE_SIZE,
                             !.sent = Append(@, PageRequest(call, schema.queryField,
                                                            call.skip + PAGE_SIZE))]]
      /\ UNCHANGED <<env, serves, aaveSchemaCache, compoundSchemaCache, promises>>

\* lines 1098-1136: fetchCompoundEvents resumes with the settled schema promise
CompoundSchemaSettled(c) ==
  LET call == calls[c]
      r == promises[call.promise].r
  IN  /\ call.pc = "schema"
      /\ call.protocol = "compound"
      /\ Awaited(r)
      /\ calls' = [calls EXCEPT ![c] =
           IF r.phase = "throw" THEN [call EXCEPT !.pc = "threw", !.error = r.error]
           ELSE [call EXCEPT !.pc = "page", !.schemas = r.configs, !.si = 1, !.skip = 0,
                             !.sent = <<PageRequest(call, r.configs[1].queryField, 0)>>]]
      /\ UNCHANGED <<env, serves, aaveSchemaCache, compoundSchemaCache, promises, failures>>

\* lines 1137-1185: fetchCompoundEvents resumes with the response of a page
\* request
CompoundPage(c, response) ==
  LET call == calls[c]
      schema == call.schemas[1]
      failure == postGraphQL(response)
      batch == ServePage(ShapeOf(serves[call.url]), schema.queryField, call.skip,
                         {schema.whereTimestampField}, FromVariable(call.fromTimestamp))
      normalized == [i \in 1..Len(batch) |-> normalizeEvent(CompoundParams(schema, batch[i]))]
      acc == Accumulate(call.events, normalized, 1, Limit(call.maxEvents))
      got == [call EXCEPT !.transport = TransportFailure(response)]
      seen == [got EXCEPT !.events = acc.events, !.pages = Append(@, Len(batch))]
  IN  /\ call.pc = "page"
      /\ call.protocol = "compound"
      /\ Fails(failure)
      /\ calls' = [calls EXCEPT ![c] =
           IF failure # NoError THEN [got EXCEPT !.pc = "threw", !.error = failure]
           ELSE IF acc.returned
           THEN [seen EXCEPT !.pc = "returned", !.result = acc.events,
                             !.capAt = Len(call.sent)]
           ELSE IF ShortPage(batch)
           THEN [seen EXCEPT !.pc = "returned", !.result = acc.events]
           ELSE [seen EXCEPT !.skip = @ + PAGE_SIZE,
                             !.sent = Append(@, PageRequest(call, schema.queryField,
                                                            call.skip + PAGE_SIZE))]]
      /\ UNCHANGED <<env, serves, aaveSchemaCache, compoundSchemaCache, promises>>

\* The engine under arbitrary callers.
Next ==
  \/ \E c \in Calls, protocol \in Protocols, chain \in Chains, address \in Addresses,
        fromTimestamp \in FromTimestamps, maxEvents \in 0..MaxCap :
       fetchSubgraphEvents(c, protocol, chain, address, fromTimestamp, maxEvents)
       /\ UNCHANGED <<storeVars, helperVars>>
  \/ \E p \in 1..Len(promises), response \in Responses :
       Resolve(p, response) /\ UNCHANGED <<storeVars, helperVars>>
  \/ \E c \in Calls : AaveSchemaSettled(c) /\ UNCHANGED <<storeVars, helperVars>>
  \/ \E c \in Calls, response \in Responses : AavePage(c, response) /\ UNCHANGED <<storeVars, helperVars>>
  \/ \E c \in Calls : CompoundSchemaSettled(c) /\ UNCHANGED <<storeVars, helperVars>>
  \/ \E c \in Calls, response \in Responses :
       CompoundPage(c, response) /\ UNCHANGED <<storeVars, helperVars>>

Spec == Init /\ [][Next]_vars

\* Every request gets a response: the request a call is suspended on, or the
\* one the resolver of its schema promise is suspended on, is answered, and a
\* call whose await is over is resumed.
Responds(c) ==
  /\ \/ /\ calls[c].pc = "schema" /\ calls[c].promise \in 1..Len(promises)
        /\ \E response \in Responses : Resolve(calls[c].promise, response)
     \/ AaveSchemaSettled(c)
     \/ \E response \in Responses : AavePage(c, response)
     \/ CompoundSchemaSettled(c)
     \/ \E response \in Responses : CompoundPage(c, response)
  /\ UNCHANGED <<storeVars, helperVars>>

\* The engine under one caller that makes one call.
LiveCalls == {1}
LiveNext ==
  \/ \E c \in LiveCalls, protocol \in Protocols, chain \in Chains, address \in Addresses,
        fromTimestamp \in FromTimestamps, maxEvents \in 0..MaxCap :
       fetchSubgraphEvents(c, protocol, chain, address, fromTimestamp, maxEvents)
       /\ UNCHANGED <<storeVars, helperVars>>
  \/ \E p \in 1..Len(promises), response \in Responses :
       Resolve(p, response) /\ UNCHANGED <<storeVars, helperVars>>
  \/ \E c \in LiveCalls : AaveSchemaSettled(c) /\ UNCHANGED <<storeVars, helperVars>>
  \/ \E c \in LiveCalls, response \in Responses :
       AavePage(c, response) /\ UNCHANGED <<storeVars, helperVars>>
  \/ \E c \in LiveCalls : CompoundSchemaSettled(c) /\ UNCHANGED <<storeVars, helperVars>>
  \/ \E c \in LiveCalls, response \in Responses :
       CompoundPage(c, response) /\ UNCHANGED <<storeVars, helperVars>>

LiveSpec == Init /\ [][LiveNext]_vars /\ \A c \in LiveCalls : WF_vars(Responds(c))

\* ---------------------------------------------------------- sync routes
\* Scheduled route: the window (7 days in the source) and the cap on the
\* events of one wallet (500 in the source).  Manual route: the size of one
\* upsert batch (500 in the source).
CronWindow == 150
CronMaxEvents == 2
BatchSize == 2
\* Date.now() / 1000 of a GET of the scheduled route
Nows == {200, 400}
\* a price of the lookup service
Price == 2

\* The largest of a set of numbers: reduce(Math.max, floor)
MaxOf(S) == CHOOSE m \in S : \A x \in S : x <= m
Timestamps(events) == {events[i].timestamp : i \in 1..Len(events)}
BlockNumbers(events) == {events[i].blockNumber : i \in 1..Len(events)}

\* sync/route.ts lines 100-117, cron/events-sync/route.ts lines 184-201: the
\* row of an event; the columns the checks do not read are left out, and
\* block_timestamp keeps the seconds.
Row(wallet, event, price_usd) ==
  [wallet_id |-> wallet.id, tx_hash |-> event.txHash, log_index |-> event.logIndex,
   block_number |-> event.blockNumber, block_timestamp |-> event.timestamp,
   asset_address |-> event.assetAddress, asset_symbol |-> event.assetSymbol,
   price_usd |-> price_usd, t |-> "row"]
\* onConflict: "wallet_id,tx_hash,log_index"
Key(row) == <<row.wallet_id, row.tx_hash, row.log_index>>
Keys(rows) == {Key(row) : row \in rows}
Batch(inserts, from, size) ==
  {inserts[i] : i \in from..Min(from + size - 1, Len(inserts))}
\* upsert: a row of the batch replaces the stored row with its key
Upsert(table, batch) == {row \in table : Key(row) \notin Keys(batch)} \cup batch
\* upsert with ignoreDuplicates: a row whose key is stored is skipped
UpsertIgnoreDuplicates(table, batch) ==
  table \cup {row \in batch : Key(row) \notin Keys(table)}

\* prices.ts lines 11-22
PLATFORM_BY_CHAIN == {"polygon", "arbitrum", "base"}
getPlatform(chain) == IF chain \in PLATFORM_BY_CHAIN THEN chain ELSE NONE
\* What a lookup that reaches the price service ends in: a price, null (no
\* price known) or an exception (the request is rejected).
Rejected == [t |-> "throw"]
\* the row had no lookup
NoLookup == [t |-> "none"]
LookupOutcomes == {Num(Price), Null, Rejected}
\* prices.ts lines 41-84
fetchHistoricalTokenPriceUsd(chain, outcome) ==
  IF getPlatform(chain) = NONE THEN Null ELSE outcome

\* The lookup of the manual route without its catch.
LookupUncaught(result) == result

\* sync/route.ts line 131: .catch(() => null)
LookupCaught(result) == IF result.t = "throw" THEN Null ELSE result

\* sync/route.ts lines 121-123: the rows the manual route looks a price up for
Looked(inserts) == {i \in 1..Len(inserts) : Truthy(inserts[i].asset_address)}
\* sync/route.ts lines 120-145: the mapper of the enrichment
Priced(row, priceUsd) ==
  IF priceUsd.t = "throw" THEN Rejected
  ELSE IF ~Truthy(priceUsd) \/ ~IsFinite(priceUsd) THEN row
  ELSE [row EXCEPT !.price_usd = priceUsd]
Enrich(wallet, inserts, outcomes) ==
  [i \in 1..Len(inserts) |->
     IF i \in Looked(inserts)
     THEN Priced(inserts[i], LookupCaught(fetchHistoricalTokenPriceUsd(wallet.chain, outcomes[i])))
     ELSE inserts[i]]
Lookups(wallet, inserts, outcomes) ==
  [i \in 1..Len(inserts) |->
     IF i \in Looked(inserts) THEN fetchHistoricalTokenPriceUsd(wallet.chain, outcomes[i])
     ELSE NoLookup]

\* cron/events-sync/route.ts lines 149-151: amountUsdRaw ? Number(amountUsdRaw) : null
DirectPrice(amountUsdRaw) ==
  IF amountUsdRaw.t = "string" /\ amountUsdRaw.s # <<>> THEN ToNumber(amountUsdRaw)
  ELSE Null
\* cron/events-sync/route.ts lines 154-159
CronLooked(event) ==
  /\ ~Truthy(DirectPrice(event.amountUsdRaw))
  /\ Truthy(event.assetAddress)
  /\ Truthy(event.assetSymbol)
  /\ event.timestamp # 0
\* cron/events-sync/route.ts lines 161-165: the lookup is handed three
\* positional arguments, so the parameter object it destructures is the
\* address string and chain is undefined.
CronLookup(event, outcome) == fetchHistoricalTokenPriceUsd(NONE, outcome)
\* cron/events-sync/route.ts lines 160-182
CronPrice(event, historicalPrice) ==
  IF historicalPrice.t # "throw" /\ Truthy(historicalPrice) THEN historicalPrice
  ELSE DirectPrice(event.amountUsdRaw)
CronRows(wallet, events, outcomes) ==
  [i \in 1..Len(events) |->
     IF CronLooked(events[i])
     THEN Row(wallet, events[i], CronPrice(events[i], CronLookup(events[i], outcomes[i])))
     ELSE Row(wallet, events[i], DirectPrice(events[i].amountUsdRaw))]
CronLookups(events, outcomes) ==
  [i \in 1..Len(events) |->
     IF CronLooked(events[i]) THEN CronLookup(events[i], outcomes[i]) ELSE NoLookup]

\* A request to the store may fail while the budget of failures lasts.
StoreOutcomes == {"ok", "error"}
\* A route that does not read the error of an upsert.
UpsertErrorIgnored(outcome) == FALSE
\* the error of the result of a request to the store
UpsertError(outcome) == outcome = "error"
StoreFails(outcome) ==
  IF outcome = "error" THEN failures < MaxFailures /\ failures' = failures + 1
  ELSE failures' = failures

Done(route, response) == [route EXCEPT !.pc = "done", !.response = response]
\* the slots are taken in order
Free(c) == routes[c].pc = "idle" /\ \A b \in Before(c) : routes[b].pc # "idle"

\* sync/route.ts lines 43-98: the manual route up to its await of
\* fetchSubgraphEvents.  The requests before it read tables no route writes,
\* except the read of the watermark, which is the last of them.
ManualBegin(c, user, walletId, includePrices, walletOutcome) ==
  LET found == {w \in user_wallets : w.id = walletId /\ w.user_id = user}
      wallet == CHOOSE w \in found : TRUE
      syncState == strategy_event_sync[wallet.id]
      route == [IdleRoute EXCEPT !.kind = "manual", !.includePrices = includePrices]
      started == [route EXCEPT !.pc = "fetch", !.wallet = wallet.id,
                               !.lastTimestamp = toTimestamp(syncState.last_synced_timestamp),
                               !.lastBlock = ToNumber(Coalesce(syncState.last_synced_block,
                                                               Num(0))).n]
      refused ==
        IF user = NONE THEN Response(401, "Unauthorized", NONE, 0)
        ELSE IF walletId = NONE THEN Response(400, "walletId required", NONE, 0)
        ELSE IF walletOutcome = "error" THEN Response(500, "Failed to load wallet", NONE, 0)
        ELSE IF found = {} THEN Response(404, "Wallet not found", NONE, 0)
        ELSE IF wallet.address = "" \/ ~isAddress(wallet.address)
        THEN Response(400, "Invalid wallet address", NONE, 0)
        ELSE NoResponse
  IN  /\ Free(c)
      /\ (walletOutcome = "error") => (user # NONE /\ walletId # NONE)
      /\ IF refused # NoResponse
         THEN /\ routes' = [routes EXCEPT ![c] = Done(route, refused)]
              /\ StoreFails(walletOutcome)
              /\ UNCHANGED <<env, serves, aaveSchemaCache, compoundSchemaCache, promises,
                             calls>>
         ELSE /\ routes' = [routes EXCEPT ![c] = started]
              /\ fetchSubgraphEvents(c, Coalesce(wallet.protocol, Str("aave")).s,
                                     wallet.chain, wallet.address, started.lastTimestamp, 0)
      /\ UNCHANGED <<strategy_event_sync, strategy_events>>

\* sync/route.ts lines 93-150 and 205-216: fetchSubgraphEvents has settled;
\* the rows are built and enriched, and the first upsert is sent.
ManualFetched(c, outcomes) ==
  LET route == routes[c]
      call == calls[c]
      wallet == WalletOf(route.wallet)
      inserts == [i \in 1..Len(call.result) |-> Row(wallet, call.result[i], Null)]
      enriched == IF route.includePrices THEN Enrich(wallet, inserts, outcomes) ELSE inserts
      lookups == IF route.includePrices THEN Lookups(wallet, inserts, outcomes)
                 ELSE [i \in 1..Len(inserts) |-> NoLookup]
      caught(message) == Response(500, "Failed to fetch subgraph events", message, 0)
  IN  /\ route.pc = "fetch" /\ route.kind = "manual"
      /\ call.pc \in {"returned", "threw"}
      /\ routes' = [routes EXCEPT ![c] =
           IF call.pc = "threw" THEN Done(route, caught(call.error.message))
           ELSE IF \E i \in 1..Len(enriched) : enriched[i].t = "throw"
           THEN Done([route EXCEPT !.lookups = lookups], caught("price lookup failed"))
           ELSE [route EXCEPT !.pc = IF Len(enriched) > 0 THEN "upsert" ELSE "watermark",
                              !.inserts = enriched, !.lookups = lookups, !.next = 1]]
      /\ UNCHANGED <<engineVars, strategy_event_sync, strategy_events>>

\* sync/route.ts lines 152-166: the upsert of one batch has answered.
ManualUpserted(c, outcome) ==
  LET route == routes[c]
      batch == Batch(route.inserts, route.next, BatchSize)
  IN  /\ route.pc = "upsert" /\ route.kind = "manual"
      /\ StoreFails(outcome)
      /\ IF UpsertError(outcome)
         THEN /\ routes' = [routes EXCEPT ![c] =
                   Done(route, Response(500, "Failed to insert events", "store error", 0))]
              /\ UNCHANGED strategy_events
         ELSE /\ strategy_events' = IF outcome = "error" THEN strategy_events
                                      ELSE Upsert(strategy_events, batch)
              /\ routes' = [routes EXCEPT ![c] =
                   IF route.next + BatchSize <= Len(route.inserts)
                   THEN [route EXCEPT !.next = @ + BatchSize]
                   ELSE [route EXCEPT !.pc = "watermark"]]
      /\ UNCHANGED <<env, serves, aaveSchemaCache, compoundSchemaCache, promises, calls,
                     strategy_event_sync>>

\* sync/route.ts lines 168-204: the upsert of the watermark has answered.
ManualWatermarked(c, outcome) ==
  LET route == routes[c]
      events == calls[c].result
      maxTimestamp == MaxOf(Timestamps(events) \cup {route.lastTimestamp})
      maxBlock == MaxOf(BlockNumbers(events) \cup {route.lastBlock})
  IN  /\ route.pc = "watermark" /\ route.kind = "manual"
      /\ StoreFails(outcome)
      /\ IF outcome = "error"
         THEN /\ routes' = [routes EXCEPT ![c] =
                   Done(route, Response(500, "Failed to update sync state", "store error", 0))]
              /\ UNCHANGED strategy_event_sync
         ELSE /\ strategy_event_sync' =
                   [strategy_event_sync EXCEPT ![route.wallet] =
                      SyncRow(Num(maxTimestamp), Num(maxBlock))]
              /\ routes' = [routes EXCEPT ![c] =
                   Done(route, Response(200, NONE, NONE, Len(events)))]
      /\ UNCHANGED <<env, serves, aaveSchemaCache, compoundSchemaCache, promises, calls,
                     strategy_events>>

\* cron/events-sync/route.ts lines 61-132: one mapper of a GET of the
\* scheduled route up to its await of fetchSubgraphEvents, with the part of
\* the GET that precedes the mappers.
CronBegin(c, authorized, walletId, now) ==
  LET wallet == WalletOf(walletId)
      syncState == strategy_event_sync[walletId]
      lastTimestamp == toTimestamp(syncState.last_synced_timestamp)
      fromTimestamp == now - CronWindow
      startTimestamp == IF lastTimestamp > fromTimestamp THEN lastTimestamp ELSE fromTimestamp
      route == [IdleRoute EXCEPT !.kind = "cron", !.wallet = walletId, !.now = now,
                                 !.lastTimestamp = lastTimestamp]
  IN  /\ Free(c)
      /\ wallet.protocol.t # "null"
      /\ IF ~authorized \/ startTimestamp >= now
         THEN /\ routes' = [routes EXCEPT ![c] =
                   Done(route, IF ~authorized THEN Response(401, "Unauthorized", NONE, 0)
                               ELSE Response(200, NONE, NONE, 0))]
              /\ UNCHANGED engineVars
         ELSE /\ routes' = [routes EXCEPT ![c] = [route EXCEPT !.pc = "fetch"]]
              /\ fetchSubgraphEvents(c, wallet.protocol.s, wallet.chain, wallet.address,
                                     startTimestamp, CronMaxEvents)
      /\ UNCHANGED <<strategy_event_sync, strategy_events>>

\* cron/events-sync/route.ts lines 126-202 and 232-239: fetchSubgraphEvents
\* has settled; the rows are built with their prices and the upsert is sent,
\* or the watermark of a sync without events.
CronFetched(c, outcomes) ==
  LET route == routes[c]
      call == calls[c]
      wallet == WalletOf(route.wallet)
  IN  /\ route.pc = "fetch" /\ route.kind = "cron"
      /\ call.pc \in {"returned", "threw"}
      /\ routes' = [routes EXCEPT ![c] =
           IF call.pc = "threw"
           THEN Done(route, Response(200, call.error.message, call.error.message, 0))
           ELSE IF Len(call.result) = 0 THEN [route EXCEPT !.pc = "emptyMark"]
           ELSE [route EXCEPT !.pc = "upsert",
                              !.inserts = CronRows(wallet, call.result, outcomes),
                              !.lookups = CronLookups(call.result, outcomes)]]
      /\ UNCHANGED <<engineVars, strategy_event_sync, strategy_events>>

\* cron/events-sync/route.ts lines 133-145: the upsert of the watermark of a
\* sync without events has answered; its result is not read.
CronEmptyMarked(c, outcome) ==
  LET route == routes[c]
  IN  /\ route.pc = "emptyMark"
      /\ StoreFails(outcome)
      /\ strategy_event_sync' =
           IF outcome = "error" THEN strategy_event_sync
           ELSE [strategy_event_sync EXCEPT ![route.wallet] = SyncRow(Num(route.now), Null)]
      /\ routes' = [routes EXCEPT ![c] = Done(route, Response(200, NONE, NONE, 0))]
      /\ UNCHANGED <<env, serves, aaveSchemaCache, compoundSchemaCache, promises, calls,
                     strategy_events>>

\* cron/events-sync/route.ts lines 204-213: the upsert of the rows has
\* answered.
CronUpserted(c, outcome) ==
  LET route == routes[c]
      batch == Batch(route.inserts, 1, Len(route.inserts))
  IN  /\ route.pc = "upsert" /\ route.kind = "cron"
      /\ StoreFails(outcome)
      /\ IF UpsertError(outcome)
         THEN /\ routes' = [routes EXCEPT ![c] =
                   Done(route, Response(200, "store error", "store error", 0))]
              /\ UNCHANGED strategy_events
         ELSE /\ strategy_events' = IF outcome = "error" THEN strategy_events
                                      ELSE UpsertIgnoreDuplicates(strategy_events, batch)
              /\ routes' = [routes EXCEPT ![c] = [route EXCEPT !.pc = "watermark"]]
      /\ UNCHANGED <<env, serves, aaveSchemaCache, compoundSchemaCache, promises, calls,
                     strategy_event_sync>>

\* cron/events-sync/route.ts lines 215-231: the upsert of the watermark has
\* answered; its result is not read.
CronWatermarked(c, outcome) ==
  LET route == routes[c]
      events == calls[c].result
      lastEvent == events[Len(events)]
  IN  /\ route.pc = "watermark" /\ route.kind = "cron"
      /\ StoreFails(outcome)
      /\ strategy_event_sync' =
           IF outcome = "error" THEN strategy_event_sync
           ELSE [strategy_event_sync EXCEPT ![route.wallet] =
                   SyncRow(Num(lastEvent.timestamp), Num(lastEvent.blockNumber))]
      /\ routes' = [routes EXCEPT ![c] =
           Done(route, Response(200, NONE, NONE, Len(events)))]
      /\ UNCHANGED <<env, serves, aaveSchemaCache, compoundSchemaCache, promises, calls,
                     strategy_events>>

\* The rows of a settled fetch a route looks a price up for.
Looks(c) ==
  LET events == calls[c].result
  IN  IF routes[c].kind = "cron" THEN {i \in 1..Len(events) : CronLooked(events[i])}
      ELSE IF routes[c].includePrices
      THEN {i \in 1..Len(events) : Truthy(events[i].assetAddress)}
      ELSE {}

\* The engine under the two sync routes.
SyncNext ==
  \/ \E c \in Calls, user \in Users \cup {NONE}, walletId \in WalletIds \cup {NONE, "w9"},
        includePrices \in BOOLEAN, walletOutcome \in StoreOutcomes :
       ManualBegin(c, user, walletId, includePrices, walletOutcome) /\ UNCHANGED helperVars
  \/ \E c \in Calls : \E outcomes \in [Looks(c) -> LookupOutcomes] : ManualFetched(c, outcomes) /\ UNCHANGED helperVars
  \/ \E c \in Calls, outcome \in StoreOutcomes : ManualUpserted(c, outcome) /\ UNCHANGED helperVars
  \/ \E c \in Calls, outcome \in StoreOutcomes : ManualWatermarked(c, outcome) /\ UNCHANGED helperVars
  \/ \E c \in Calls, authorized \in BOOLEAN, walletId \in WalletIds, now \in Nows :
       CronBegin(c, authorized, walletId, now) /\ UNCHANGED helperVars
  \/ \E c \in Calls : \E outcomes \in [Looks(c) -> LookupOutcomes] : CronFetched(c, outcomes) /\ UNCHANGED helperVars
  \/ \E c \in Calls, outcome \in StoreOutcomes : CronEmptyMarked(c, outcome) /\ UNCHANGED helperVars
  \/ \E c \in Calls, outcome \in StoreOutcomes : CronUpserted(c, outcome) /\ UNCHANGED helperVars
  \/ \E c \in Calls, outcome \in StoreOutcomes : CronWatermarked(c, outcome) /\ UNCHANGED helperVars
  \/ \E p \in 1..Len(promises), response \in Responses :
       Resolve(p, response) /\ UNCHANGED <<storeVars, helperVars>>
  \/ \E c \in Calls : AaveSchemaSettled(c) /\ UNCHANGED <<storeVars, helperVars>>
  \/ \E c \in Calls, response \in Responses : AavePage(c, response) /\ UNCHANGED <<storeVars, helperVars>>
  \/ \E c \in Calls : CompoundSchemaSettled(c) /\ UNCHANGED <<storeVars, helperVars>>
  \/ \E c \in Calls, response \in Responses :
       CompoundPage(c, response) /\ UNCHANGED <<storeVars, helperVars>>

SyncSpec == Init /\ [][SyncNext]_vars

\* ---------------------------------------------------------- pure helpers
\* Amounts are strings of one-character strings, as the numeric strings above.
MaxDigits == 3
MaxDecimals == 4
MaxDepth == 5

\* lines 154-156: /^[0-9]+$/
isIntegerString(value) ==
  value # <<>> /\ \A i \in 1..Len(value) : value[i] \in Digits

\* BigInt(value).toString() of a string of digits: the digits without the
\* leading zeros, "0" for zero.
RECURSIVE BigIntToString(_)
BigIntToString(value) ==
  IF Len(value) > 1 /\ value[1] = "0" THEN BigIntToString(Tail(value)) ELSE value

Zeros(k) == [i \in 1..k |-> "0"]
\* display.padStart(n, "0")
PadStart(display, n) ==
  IF Len(display) >= n THEN display ELSE Zeros(n - Len(display)) \o display
\* fraction.replace(/(0+)$/, "")
RECURSIVE StripTrailingZeros(_)
StripTrailingZeros(fraction) ==
  IF fraction # <<>> /\ fraction[Len(fraction)] = "0"
  THEN StripTrailingZeros(SubSeq(fraction, 1, Len(fraction) - 1))
  ELSE fraction

\* formatUnits of the viem library (imported on line 1, called on line 200),
\* after its published implementation: toString, padStart(decimals, "0"),
\* slice at length - decimals, trailing zeros of the fraction removed, "0" for
\* an empty integer part.  padStart(Infinity) raises RangeError; with NaN
\* padStart pads nothing and both slices cut at 0; with negative decimals the
\* cut lies past the end.
formatUnits(value, decimals) ==
  IF decimals.c = "inf" THEN [t |-> "throw"]
  ELSE LET display == IF decimals.c = "nan" THEN value ELSE PadStart(value, decimals.n)
           cut == IF decimals.c = "nan" THEN 0 ELSE Min(Len(display) - decimals.n, Len(display))
           integer == SubSeq(display, 1, cut)
           fraction == StripTrailingZeros(SubSeq(display, cut + 1, Len(display)))
       IN  Str((IF integer = <<>> THEN <<"0">> ELSE integer)
               \o (IF fraction = <<>> THEN <<>> ELSE <<".">> \o fraction))

\* lines 199-203: try { return ... } catch { return amountRaw }
OrRaw(result, amountRaw) == IF result.t = "throw" THEN amountRaw ELSE result

\* normalizeAmount that hands the raw amount on without scaling it
normalizeAmountUnscaled(amountRaw, decimals) ==
  IF amountRaw.t # "string" \/ amountRaw.s = <<>> THEN Null ELSE amountRaw
\* lines 192-204
normalizeAmount(amountRaw, decimals) ==
  IF amountRaw.t # "string" \/ amountRaw.s = <<>> THEN Null
  ELSE IF decimals.t \in {"undefined", "null"} THEN amountRaw
  ELSE IF ~isIntegerString(amountRaw.s) THEN amountRaw
  ELSE OrRaw(formatUnits(BigIntToString(amountRaw.s), decimals), amountRaw)

\* lines 224-229: the decimals and the amount as normalizeEvent hands them on
assetDecimalsOf(params) ==
  IF params.assetDecimals.t \notin {"undefined", "null"}
  THEN ToNumber(params.assetDecimals) ELSE Null
amountOf(params) ==
  normalizeAmount(Coalesce(params.amountRaw, Null), assetDecimalsOf(params))

\* The inputs the helpers are applied to.
RECURSIVE SeqsUpTo(_, _)
SeqsUpTo(S, n) ==
  IF n = 0 THEN {<<>>}
  ELSE LET shorter == SeqsUpTo(S, n - 1)
       IN  shorter \cup {Append(q, x) : q \in shorter, x \in S}
IntegerStrings == SeqsUpTo({"0", "1", "5"}, MaxDigits) \ {<<>>}
OtherStrings == {<<>>, <<"1", ".", "5">>, <<"-", "5">>, <<"0", "x", "1">>, <<" ", "1">>}
AmountRaws ==
  {Null, Undefined} \cup {Str(q) : q \in IntegerStrings \cup OtherStrings}
\* assetDecimals as the subgraph hands it out: absent, a number, a numeric
\* string, a string that is no number
AssetDecimals ==
  {Undefined, Null, Str(<<"0", "x", "1">>), Str(<<"I", "n", "f", "i", "n", "i", "t", "y">>)}
    \cup {Num(d) : d \in -1..MaxDecimals} \cup {Str(<<"1">>)}

Wrappers == {<<[kind |-> k, name |-> NONE]>> : k \in {"NON_NULL", "LIST"}}
RECURSIVE Wrapped(_, _)
Wrapped(inner, n) ==
  IF n = 0 THEN inner
  ELSE LET less == Wrapped(inner, n - 1)
       IN  less \cup {w \o t : w \in Wrappers, t \in less}
\* chains that end in a named type, in a layer without a name, or in a
\* missing ofType
TypeRefs ==
  Wrapped({Named("Token"), Named("Int"), <<[kind |-> "OBJECT", name |-> NONE]>>, <<>>},
          MaxDepth)

FieldNames == {"user", "account", "timestamp"}
FieldLists == {[i \in DOMAIN q |-> F(q[i], Named("String"))] : q \in SeqsUpTo(FieldNames, 3)}
CandidateLists == SeqsUpTo({"user", "account", "owner"}, 3)

\* One application of a helper to one input: the arguments and the value
\* returned.
NormalizeAmount(amountRaw, assetDecimals) ==
  /\ eval = NoEval
  /\ eval' = [op |-> "normalizeAmount", amountRaw |-> amountRaw,
              assetDecimals |-> assetDecimals,
              decimals |-> assetDecimalsOf([assetDecimals |-> assetDecimals]),
              out |-> amountOf([amountRaw |-> amountRaw, assetDecimals |-> assetDecimals])]
  /\ UNCHANGED <<engineVars, storeVars, pool>>
UnwrapTypeName(typeRef) ==
  /\ eval = NoEval
  /\ eval' = [op |-> "unwrapTypeName", typeRef |-> typeRef, out |-> unwrapTypeName(typeRef)]
  /\ UNCHANGED <<engineVars, storeVars, pool>>
PickField(fields, candidates) ==
  /\ eval = NoEval
  /\ eval' = [op |-> "pickField", fields |-> fields, candidates |-> candidates,
              out |-> pickField(fields, candidates)]
  /\ UNCHANGED <<engineVars, storeVars, pool>>

HelperNext ==
  \/ \E amountRaw \in AmountRaws, assetDecimals \in AssetDecimals :
       NormalizeAmount(amountRaw, assetDecimals)
  \/ \E typeRef \in TypeRefs : UnwrapTypeName(typeRef)
  \/ \E fields \in FieldLists, candidates \in CandidateLists : PickField(fields, candidates)

HelperSpec == Init /\ [][HelperNext]_vars

\* ------------------------------------------------------ mapWithConcurrency
\* cron/events-sync/route.ts lines 41-55.  The items are the rows 1..n; a
\* mapper is running from its invocation until it settles, and what it
\* resolves to is told by its item and index.
MaxItems == 4
MaxLimit == 3
Mapped(item, index) == [item |-> item, index |-> index]
\* items.slice(i, i + limit), as positions of the items
BatchAt(n, limit, i) == (i + 1)..Min(i + limit, n)
\* batch.map((item, idx) => mapper(item, i + idx)): every mapper of the batch
\* is invoked
Invoke(mappers, batch) == [k \in DOMAIN mappers |-> IF k \in batch THEN "running" ELSE mappers[k]]

\* a promise of the batch that settles first settling the whole
PromiseRace(mappers, batch) ==
  IF \E k \in batch : mappers[k] = "rejected" THEN "rejected"
  ELSE IF batch = {} \/ \E k \in batch : mappers[k] = "fulfilled" THEN "fulfilled"
  ELSE "pending"
\* Promise.all(batch.map(...)): rejected with the first rejection, fulfilled
\* when every promise of the batch is
PromiseAll(mappers, batch) ==
  IF \E k \in batch : mappers[k] = "rejected" THEN "rejected"
  ELSE IF \A k \in batch : mappers[k] = "fulfilled" THEN "fulfilled"
  ELSE "pending"

\* for (let i = ...; i < items.length; ...): the next batch is started, or
\* the results are returned
Loop(p) ==
  IF p.i < p.n
  THEN [p EXCEPT !.pc = "await", !.mappers = Invoke(@, BatchAt(p.n, p.limit, p.i))]
  ELSE [p EXCEPT !.pc = "returned"]

\* lines 41-50: the call up to its first await
MapBegin(n, limit) ==
  /\ pool = NoPool
  /\ pool' = Loop([pc |-> "loop", n |-> n, limit |-> limit, i |-> 0,
                   mappers |-> [k \in 1..n |-> "idle"], results |-> <<>>])
  /\ UNCHANGED <<engineVars, storeVars, eval>>
\* a mapper that is running settles; it goes on after the call has thrown
MapperSettled(k, outcome) ==
  /\ pool.pc # "idle"
  /\ k \in DOMAIN pool.mappers /\ pool.mappers[k] = "running"
  /\ pool' = [pool EXCEPT !.mappers[k] = outcome]
  /\ UNCHANGED <<engineVars, storeVars, eval>>
\* lines 49-52: the await of Promise.all is over; the results of the batch
\* are pushed in the order of the batch and the loop goes on, or the rejection
\* leaves the function
MapResumed ==
  /\ pool.pc = "await"
  /\ LET batch == BatchAt(pool.n, pool.limit, pool.i)
         all == PromiseAll(pool.mappers, batch)
         batchResults == [j \in 1..Cardinality(batch) |-> Mapped(pool.i + j, pool.i + j - 1)]
     IN  /\ all # "pending"
         /\ pool' = IF all = "rejected" THEN [pool EXCEPT !.pc = "threw"]
                    ELSE Loop([pool EXCEPT !.results = @ \o batchResults,
                                           !.i = @ + pool.limit])
  /\ UNCHANGED <<engineVars, storeVars, eval>>

MapNext ==
  \/ \E n \in 0..MaxItems, limit \in 1..MaxLimit : MapBegin(n, limit)
  \/ \E k \in 1..MaxItems, outcome \in {"fulfilled", "rejected"} : MapperSettled(k, outcome)
  \/ MapResumed

MapSpec == Init /\ [][MapNext]_vars

\* =================================================================== claims
CacheOf(protocol) == IF protocol = "compound" THEN compoundSchemaCache ELSE aaveSchemaCache
PromisesOf(protocol, url) ==
  {p \in 1..Len(promises) : promises[p].protocol = protocol /\ promises[p].url = url}
RootRequests(p) ==
  Cardinality({i \in 1..Len(promises[p].requests) : promises[p].requests[i].kind = "root"})
Targeting(protocol, url) ==
  {c \in Calls : calls[c].pc # "idle" /\ calls[c].protocol = protocol /\ calls[c].url = url}

\* C1: whatever number of invocations target one endpoint URL of one adapter,
\* a single resolver is started for it, the schema introspection is sent once,
\* and every invocation holds the same promise.
C1_SingleFlight ==
  \A protocol \in Protocols, url \in Urls :
    Targeting(protocol, url) # {} =>
      /\ Cardinality(PromisesOf(protocol, url)) = 1
      /\ \A p \in PromisesOf(protocol, url) :
           /\ RootRequests(p) = 1
           /\ \A c \in Targeting(protocol, url) : calls[c].promise = p

\* Two invocations are suspended on the resolution of the same URL while it
\* is pending.
C1_Witness ==
  \E c \in Calls, d \in Calls :
    /\ c # d
    /\ calls[c].pc = "schema" /\ calls[d].pc = "schema"
    /\ calls[c].protocol = calls[d].protocol /\ calls[c].url = calls[d].url
    /\ ~Settled(promises[calls[c].promise].r)

\* C2: an invocation that resolves a URL whose earlier resolution failed starts
\* a new resolver instead of being handed the failure.
C2_FailureNotCached ==
  [][\A c \in Calls :
       (/\ calls[c].pc = "idle"
        /\ calls'[c].pc = "schema"
        /\ CacheOf(calls'[c].protocol)[calls'[c].url] # 0
        /\ promises[CacheOf(calls'[c].protocol)[calls'[c].url]].r.phase = "throw")
       => (/\ Len(promises') = Len(promises) + 1
           /\ calls'[c].promise = Len(promises'))]_vars

\* C3: a returned list is never longer than a supplied maxEvents.
C3_NeverMoreThanMaxEvents ==
  \A c \in Calls :
    calls[c].pc = "returned" /\ calls[c].maxEvents > 0 =>
      Len(calls[c].result) <= calls[c].maxEvents

\* An Aave and a Compound invocation have both returned exactly maxEvents
\* events, cut off by the cap.
C3_Witness ==
  \E c \in Calls, d \in Calls :
    /\ calls[c].protocol = "aave" /\ calls[d].protocol = "compound"
    /\ \A e \in {c, d} : /\ calls[e].pc = "returned"
                         /\ calls[e].capAt # 0
                         /\ Len(calls[e].result) = calls[e].maxEvents

PageRequests(call) == SelectSeq(call.sent, LAMBDA q : q.kind = "page")
QueriedFields(call) == {call.schemas[j].queryField : j \in 1..call.si}

\* C4: once the events of an invocation have reached the cap, the invocation
\* has returned them: no page request is outstanding, and no request was made
\* for a schema config after the one in which the cap was reached.
C4_ReturnsAtCap ==
  \A c \in Calls :
    (calls[c].maxEvents > 0 /\ Len(calls[c].events) >= calls[c].maxEvents) =>
      /\ calls[c].pc = "returned"
      /\ calls[c].result = calls[c].events
      /\ Len(PageRequests(calls[c])) = Len(calls[c].pages)
      /\ \A i \in 1..Len(calls[c].sent) :
           calls[c].sent[i].field # NONE => calls[c].sent[i].field \in QueriedFields(calls[c])

\* The cap was reached on a full page of a schema config that is not the last
\* one of the list.
C4_Witness ==
  \E c \in Calls :
    /\ calls[c].pc = "returned"
    /\ calls[c].capAt # 0
    /\ calls[c].si < Len(calls[c].schemas)
    /\ calls[c].pages[Len(calls[c].pages)] = PAGE_SIZE

\* The records the endpoint delivered in answer to page request i of a call,
\* and all records delivered up to and including page i.
SchemaFor(call, field) ==
  call.schemas[CHOOSE j \in 1..Len(call.schemas) : call.schemas[j].queryField = field]
TimestampFilters(schema) ==
  {schema.whereTimestampField} \cup
  (IF "directTimestampArg" \in DOMAIN schema THEN {schema.directTimestampArg} ELSE {})
PageRecords(call, i) ==
  ServePage(ShapeOf(serves[call.url]), PageRequests(call)[i].field, PageRequests(call)[i].skip,
            TimestampFilters(SchemaFor(call, PageRequests(call)[i].field)),
            PageRequests(call)[i].from)
RECURSIVE Delivered(_, _)
Delivered(call, i) ==
  IF i = 0 THEN <<>> ELSE Delivered(call, i - 1) \o PageRecords(call, i)

\* A raw record as the claims classify it: its transaction identity is the
\* transaction hash of the record or else its id; its timestamp is positive
\* when it is a number above 0 or a string of digits, blanks around it, whose
\* value is above 0.
Identity(call, item) ==
  LET hash == Get(item.raw, SchemaFor(call, item.src[1]).fields.txHash)
  IN  IF hash.t \in {"undefined", "null"} THEN Get(item.raw, "id") ELSE hash
HasIdentity(call, item) ==
  Identity(call, item).t = "string" /\ Identity(call, item).s # ""
PositiveTimestamp(call, item) ==
  LET ts == Get(item.raw, SchemaFor(call, item.src[1]).fields.timestamp)
      digits == IF ts.t = "string" THEN TrimSpaces(ts.s) ELSE <<>>
  IN  \/ ts.t = "number" /\ ts.c = "finite" /\ ts.n > 0
      \/ /\ ts.t = "string"
         /\ digits # <<>>
         /\ \A i \in 1..Len(digits) : digits[i] \in Digits
         /\ DigitsToNat(digits) > 0
ValidRecord(call, item) == HasIdentity(call, item) /\ PositiveTimestamp(call, item)
ValidDelivered(call, i) == SelectSeq(Delivered(call, i), LAMBDA item : ValidRecord(call, item))
CapNotReachedAfter(call, i) ==
  call.maxEvents = 0 \/ Len(ValidDelivered(call, i)) < call.maxEvents

\* C5: after a page of fewer than PAGE_SIZE records no further page of the
\* same query field is requested, and a page of exactly PAGE_SIZE records that
\* leaves the cap unreached is followed by the request for the next page of
\* the same field.
C5_PaginationHalts ==
  \A c \in Calls :
    LET call == calls[c]
        reqs == PageRequests(call)
    IN  /\ Len(call.pages) <= Len(reqs)
        /\ \A i \in 1..Len(call.pages) :
             /\ call.pages[i] = Len(PageRecords(call, i))
             /\ call.pages[i] < PAGE_SIZE =>
                  \A j \in (i + 1)..Len(reqs) : reqs[j].field # reqs[i].field
             /\ (call.pages[i] = PAGE_SIZE /\ CapNotReachedAfter(call, i)) =>
                  /\ i < Len(reqs)
                  /\ reqs[i + 1].field = reqs[i].field
                  /\ reqs[i + 1].skip = reqs[i].skip + PAGE_SIZE

\* A call has received a full page followed by a short page of the same query
\* field and has gone on to the next field.
C5_Witness ==
  \E c \in Calls :
    \E i \in 1..(Len(calls[c].pages) - 1) :
      /\ calls[c].pages[i] = PAGE_SIZE
      /\ calls[c].pages[i + 1] < PAGE_SIZE
      /\ PageRequests(calls[c])[i + 1].field = PageRequests(calls[c])[i].field
      /\ Len(PageRequests(calls[c])) > i + 1

RecordOf(call, event) == [raw |-> ShapeOf(serves[call.url]).data[event.src[1]][event.src[2]],
                          src |-> event.src]

\* C6: every returned event has a non-empty transaction identity and a
\* timestamp above 0, and is the event of a raw record that has both; no raw
\* record without them is defaulted into the output.
C6_OnlyIdentifiedTimedEvents ==
  \A c \in Calls :
    calls[c].pc = "returned" =>
      \A i \in 1..Len(calls[c].result) :
        LET event == calls[c].result[i]
        IN  /\ event.txHash # ""
            /\ event.timestamp > 0
            /\ ValidRecord(calls[c], RecordOf(calls[c], event))
            /\ event.txHash = Identity(calls[c], RecordOf(calls[c], event)).s

\* A call returned events although the pages it received held a record without
\* an identity and a record without a positive timestamp.
C6_Witness ==
  \E c \in Calls :
    LET call == calls[c]
        all == Delivered(call, Len(call.pages))
    IN  /\ call.pc = "returned"
        /\ call.result # <<>>
        /\ \E i \in 1..Len(all) : ~HasIdentity(call, all[i])
        /\ \E i \in 1..Len(all) : HasIdentity(call, all[i]) /\ ~PositiveTimestamp(call, all[i])

First(seq, n) == SubSeq(seq, 1, IF n < Len(seq) THEN n ELSE Len(seq))

\* C7: a call that returned hands back exactly the valid records of the pages
\* it received, in the order of delivery, up to the cap; an invalid record
\* neither stops the records behind it nor fails the call.
C7_DroppedRowDoesNotAbort ==
  \A c \in Calls :
    LET call == calls[c]
        valid == ValidDelivered(call, Len(call.pages))
        expected == IF call.maxEvents > 0 THEN First(valid, call.maxEvents) ELSE valid
    IN  /\ call.pc = "returned" =>
             /\ Len(call.result) = Len(expected)
             /\ \A i \in 1..Len(expected) : call.result[i].src = expected[i].src
        /\ (call.pc = "threw" /\ call.pages # <<>>) => call.transport

\* A call returned, uncapped, a valid record that was delivered behind an
\* invalid record of the same page and one delivered on a later page.
C7_Witness ==
  \E c \in Calls :
    LET call == calls[c]
        all == Delivered(call, Len(call.pages))
    IN  /\ call.pc = "returned"
        /\ call.maxEvents = 0
        /\ Len(call.pages) > 1
        /\ \E i \in 1..Len(all), j \in 1..Len(all), k \in 1..Len(call.result) :
             /\ i < j
             /\ ~ValidRecord(call, all[i])
             /\ all[i].src[1] = all[j].src[1]
             /\ (all[i].src[2] - 1) \div PAGE_SIZE = (all[j].src[2] - 1) \div PAGE_SIZE
             /\ call.result[k].src = all[j].src
        /\ \E k \in 1..Len(call.result) : call.result[k].src[2] > PAGE_SIZE

\* C8: a call whose page request met a transport failure has failed and
\* returns nothing, whatever it had accumulated; a call waiting on a schema
\* resolution that met a transport failure fails as well.
C8_TransportFailureIsFatal ==
  /\ \A c \in Calls :
       calls[c].transport =>
         /\ calls[c].pc = "threw"
         /\ calls[c].error # NoError
         /\ calls[c].result = <<>>
  /\ \A c \in Calls :
       (calls[c].promise # 0 /\ promises[calls[c].promise].transport) =>
         /\ calls[c].pc \in {"schema", "threw"}
         /\ calls[c].pc = "threw" => calls[c].error # NoError
         /\ calls[c].result = <<>>
         /\ calls[c].sent = <<>>

\* A call failed on a page request after it had accumulated events of an
\* earlier page.
C8_Witness ==
  \E c \in Calls :
    /\ calls[c].transport
    /\ calls[c].pc = "threw"
    /\ calls[c].events # <<>>
    /\ Len(PageRequests(calls[c])) > Len(calls[c].pages)

NoEndpoint(protocol, chain) ==
  LET table == IF protocol = "compound" THEN env.COMPOUND_SUBGRAPHS ELSE env.AAVE_SUBGRAPHS
      supported == IF protocol = "compound" THEN SUPPORTED_COMPOUND_CHAINS
                   ELSE SUPPORTED_AAVE_CHAINS
  IN  chain \notin supported \/ table[chain] \in {NONE, ""}

\* C9: a call for a (protocol, chain) pair without a configured endpoint fails
\* in its first step with the missing-endpoint error, sends nothing and leaves
\* both schema caches and the resolutions as they were.
C9_MissingEndpointFailsAtOnce ==
  [][\A c \in Calls :
       (/\ calls[c].pc = "idle"
        /\ calls'[c].pc # "idle"
        /\ NoEndpoint(calls'[c].protocol, calls'[c].chain))
       => (/\ calls'[c].pc = "threw"
           /\ calls'[c].error.message = "Missing subgraph URL for protocol/chain."
           /\ calls'[c].sent = <<>>
           /\ UNCHANGED <<aaveSchemaCache, compoundSchemaCache, promises>>)]_vars

\* A call failed with the missing-endpoint error for a chain the protocol does
\* not support, another for a supported chain whose endpoint is not set.
C9_Witness ==
  \E c \in Calls, d \in Calls :
    /\ \A e \in {c, d} :
         /\ calls[e].pc = "threw"
         /\ calls[e].error.message = "Missing subgraph URL for protocol/chain."
    /\ calls[c].protocol = "compound" /\ calls[c].chain \notin SUPPORTED_COMPOUND_CHAINS
    /\ calls[d].protocol = "aave" /\ calls[d].chain \in SUPPORTED_AAVE_CHAINS

SuppliedArgs == {"user", "account", "from", "skip", "where"}
DeclaresUnsuppliedArg(field) ==
  \E i \in 1..Len(field.args) :
    field.args[i].type[1].kind = "NON_NULL" /\ field.args[i].name \notin SuppliedArgs

\* C10: no Schema Config that Aave discovery returns names a root query field
\* that declares a required argument other than user, account, from, skip or
\* where.
C10_RequiredArgsRespected ==
  \A p \in 1..Len(promises) :
    (promises[p].protocol = "aave" /\ promises[p].r.phase = "return") =>
      \A i \in 1..Len(promises[p].r.configs) :
        LET root == ShapeOf(serves[promises[p].url]).root
            at == FirstIndex(root, {promises[p].r.configs[i].queryField})
        IN  at # 0 => ~DeclaresUnsuppliedArg(root[at])

\* C11: a discovery that fails because the endpoint has no usable root query
\* field fails, for the Aave and for the Compound adapter, with an error that
\* enumerates the names of the root fields of the endpoint.
C11_DiscoveryErrorListsFields ==
  \A p \in 1..Len(promises) :
    (promises[p].r.phase = "throw" /\ ~promises[p].transport) =>
      /\ promises[p].r.error.available # <<>>
      /\ promises[p].r.error.available = Names(ShapeOf(serves[promises[p].url]).root)

FromField(call, f) == SelectSeq(call.result, LAMBDA event : event.src[1] = f)
Positions(events) == [i \in 1..Len(events) |-> events[i].src[2]]

\* C15: the list an Aave call returns holds every event of borrows before any
\* event of repays, and the events of each of the two fields in the order in
\* which the endpoint delivered them.
C15_BorrowsBeforeRepays ==
  \A c \in Calls :
    (calls[c].pc = "returned" /\ calls[c].protocol = "aave") =>
      /\ \A i \in 1..Len(calls[c].result), j \in 1..Len(calls[c].result) :
           (calls[c].result[i].src[1] = "borrows" /\ calls[c].result[j].src[1] = "repays")
             => i < j
      /\ \A f \in {"borrows", "repays"} :
           \A i \in 1..(Len(FromField(calls[c], f)) - 1) :
             Positions(FromField(calls[c], f))[i] < Positions(FromField(calls[c], f))[i + 1]

ConfigIndex(configs, field) ==
  CHOOSE i \in 1..Len(configs) : configs[i].queryField = field

\* C16: fetchAaveEvents sends every page request of a config whose query field
\* name contains borrow or repay before any page request of a config whose
\* name contains neither, and inside each of the two groups it queries the
\* configs in the order of the resolved list.
C16_DebtFieldsQueriedFirst ==
  \A c \in Calls :
    (calls[c].protocol = "aave" /\ calls[c].pc \in {"page", "returned", "threw"}
       /\ calls[c].schemas # <<>>) =>
      LET reqs == PageRequests(calls[c])
          configs == promises[calls[c].promise].r.configs
      IN  \A i \in 1..Len(reqs), j \in 1..Len(reqs) :
            i < j =>
              /\ ~(~want(reqs[i].field) /\ want(reqs[j].field))
              /\ (want(reqs[i].field) = want(reqs[j].field)) =>
                   ConfigIndex(configs, reqs[i].field) <= ConfigIndex(configs, reqs[j].field)

\* A call has queried two debt fields and then a field that precedes both in
\* the resolved list.
C16_Witness ==
  \E c \in Calls :
    /\ calls[c].protocol = "aave" /\ calls[c].pc = "returned"
    /\ LET reqs == PageRequests(calls[c])
           configs == promises[calls[c].promise].r.configs
       IN  \E i \in 1..Len(reqs), j \in 1..Len(reqs), k \in 1..Len(reqs) :
             /\ i < j /\ j < k
             /\ want(reqs[i].field) /\ want(reqs[j].field) /\ ~want(reqs[k].field)
             /\ reqs[i].field # reqs[j].field
             /\ ConfigIndex(configs, reqs[k].field) < ConfigIndex(configs, reqs[i].field)

\* C18: a call starts at most one outbound request in each of its steps, and
\* the request it starts is the one it suspends on: no request is started
\* without being awaited and no two requests are outstanding together.
C18_OneRequestOutstanding ==
  [][\A c \in Calls :
       /\ Len(calls'[c].sent) <= Len(calls[c].sent) + 1
       /\ \A i \in 1..Len(calls'[c].sent) : calls'[c].sent[i].kind = "page"]_vars

\* The page requests of a call for one query field, in the order sent.
FieldRequests(call, f) == SelectSeq(PageRequests(call), LAMBDA q : q.field = f)

\* C17: the page requests of one query field carry skip 0, PAGE_SIZE,
\* 2 * PAGE_SIZE, ... in the order sent and the same user and from variables,
\* and a call never has more than one page request without its response.
C17_SequentialPaging ==
  \A c \in Calls :
    LET call == calls[c]
    IN  /\ Len(PageRequests(call)) - Len(call.pages) \in {0, 1}
        /\ Len(PageRequests(call)) - Len(call.pages) = 1 =>
             (call.pc = "page" \/ (call.pc = "threw" /\ call.transport))
        /\ \A i \in 1..Len(call.schemas) :
             LET reqs == FieldRequests(call, call.schemas[i].queryField)
             IN  \A k \in 1..Len(reqs) :
                   /\ reqs[k].skip = (k - 1) * PAGE_SIZE
                   /\ reqs[k].user = toLowerCase(call.address)
                   /\ reqs[k].from = (IF call.fromTimestamp > 0 THEN call.fromTimestamp ELSE 0)

\* A call has sent the second page request of a field, with a from variable
\* above 0, after the full first page, and another call one with from 0.
C17_Witness ==
  \E c \in Calls, d \in Calls :
    /\ \E i \in 1..Len(calls[c].schemas) :
         LET reqs == FieldRequests(calls[c], calls[c].schemas[i].queryField)
         IN  Len(reqs) >= 2 /\ reqs[2].skip = PAGE_SIZE /\ reqs[2].from > 0
    /\ calls[c].pages # <<>> /\ calls[c].pages[1] = PAGE_SIZE
    /\ calls[d].fromTimestamp < 0
    /\ PageRequests(calls[d]) # <<>> /\ PageRequests(calls[d])[1].from = 0

RECURSIVE Discovery(_, _, _)
Discovery(protocol, shape, r) ==
  IF Settled(r) THEN r
  ELSE Discovery(protocol, shape,
                 IF protocol = "compound" THEN resolveCompoundSchemaConfig(r, shape)
                 ELSE resolveAaveSchemaConfig(r, shape))
ShapeIds ==
  {"AaveStd", "AaveDirect", "AaveUnusable", "AaveReserve", "AaveNoField", "AaveOpaque",
   "CompoundStd", "CompoundNoField"}
\* What the discovery of each endpoint settles to when every request of it is
\* answered and nothing else happens.
AloneTable ==
  [protocol \in Protocols |->
     [id \in ShapeIds |-> Discovery(protocol, ShapeOf(id), NewPromise(protocol, NONE).r)]]
Alone(protocol, url) == AloneTable[protocol][serves[url]]

\* C19: every endpoint URL has its own cache entry and its own discovery run;
\* a call holds the resolution of its own URL; a resolution that met no
\* transport failure settles to what its own endpoint determines, whatever
\* the state of the other resolutions, pending or failed.
C19_UrlsIndependent ==
  /\ \A c \in Calls :
       calls[c].pc \in {"schema", "page", "returned"} =>
         /\ calls[c].promise \in 1..Len(promises)
         /\ promises[calls[c].promise].url = calls[c].url
         /\ promises[calls[c].promise].protocol = calls[c].protocol
         /\ CacheOf(calls[c].protocol)[calls[c].url] = calls[c].promise
         /\ calls[c].schemas # <<>> =>
              calls[c].schemas =
                IF calls[c].protocol = "compound"
                THEN Alone(calls[c].protocol, calls[c].url).configs
                ELSE SortSchemas(Alone(calls[c].protocol, calls[c].url).configs)
  /\ \A protocol \in Protocols, u \in Urls, v \in Urls :
       (u # v /\ CacheOf(protocol)[u] # 0) => CacheOf(protocol)[u] # CacheOf(protocol)[v]
  /\ \A p \in 1..Len(promises) :
       (Settled(promises[p].r) /\ ~promises[p].transport) =>
         promises[p].r = Alone(promises[p].protocol, promises[p].url)

\* While the resolution of one URL is still pending on its first response,
\* the resolution of another URL, started after it in the same cache, has
\* succeeded and its call has returned events.
C19_Witness ==
  \E p \in 1..Len(promises), q \in 1..Len(promises), c \in Calls :
    /\ p < q
    /\ promises[p].protocol = promises[q].protocol
    /\ promises[p].url # promises[q].url
    /\ promises[p].r.phase = "root"
    /\ promises[q].r.phase = "return"
    /\ calls[c].promise = q /\ calls[c].pc = "returned" /\ calls[c].result # <<>>

\* C20: a resolution that has succeeded is never changed or replaced, a call
\* that finds it in the cache starts no resolver and sends no introspection,
\* and every call that takes its configs sees them in the same order; the
\* borrow/repay-first sort leaves the cached list as it was.
C20_ResolvedConfigImmutable ==
  [][/\ \A p \in 1..Len(promises) :
          promises[p].r.phase = "return" =>
            /\ promises'[p] = promises[p]
            /\ CacheOf(promises[p].protocol)'[promises[p].url] = p
     /\ \A c \in Calls :
          (calls[c].pc = "idle" /\ calls'[c].pc = "schema" /\ calls'[c].found = "return")
            => promises' = promises
     /\ \A c \in Calls :
          (calls[c].pc = "schema" /\ calls'[c].pc = "page") =>
            calls'[c].schemas =
              IF calls[c].protocol = "compound" THEN promises[calls[c].promise].r.configs
              ELSE SortSchemas(promises[calls[c].promise].r.configs)]_vars

\* A call that found the succeeded resolution in the cache has gone through
\* its pages, after another call had sorted the same configs into another
\* order.
C20_Witness ==
  \E c \in Calls, d \in Calls :
    /\ c # d
    /\ calls[c].promise = calls[d].promise
    /\ calls[d].found = "return"
    /\ calls[c].pc = "returned" /\ calls[d].pc = "returned"
    /\ calls[d].schemas = calls[c].schemas
    /\ calls[d].schemas # promises[calls[d].promise].r.configs

\* ------------------------------------------------------ the sync routes
EventKey(w, event) == <<w, event.txHash, event.logIndex>>
\* every event of the fetch of sync c has a stored row
EventsStored(c) ==
  \A i \in 1..Len(calls[c].result) :
    EventKey(routes[c].wallet, calls[c].result[i]) \in Keys(strategy_events)
\* the step ends sync c
Ends(c) == routes[c].pc # "done" /\ routes'[c].pc = "done"
\* the step ends sync c on an exception of fetchSubgraphEvents or on the error
\* of an upsert of rows
EndsOnFailure(c) ==
  \/ routes[c].pc = "fetch" /\ calls[c].pc = "threw" /\ routes'[c] # routes[c]
  \/ routes[c].pc = "upsert" /\ routes'[c] # routes[c] /\ failures' # failures

\* C12: in both routes, a step changes the watermark of a wallet only if it
\* ends a sync of that wallet whose fetch returned and whose events all have
\* their rows stored; and a step on which fetchSubgraphEvents has thrown or an
\* upsert of rows has answered with an error ends the sync with a detail
\* string and leaves every watermark as it was.
C12_WatermarkOnlyAfterInsert ==
  [][/\ \A w \in WalletIds :
          strategy_event_sync'[w] # strategy_event_sync[w] =>
            \E c \in Calls :
              /\ routes[c].wallet = w /\ Ends(c)
              /\ calls[c].pc = "returned"
              /\ EventsStored(c)
     /\ \A c \in Calls :
          EndsOnFailure(c) =>
            /\ routes'[c].pc = "done"
            /\ routes'[c].response.detail # NONE
            /\ strategy_event_sync' = strategy_event_sync]_vars

\* A manual sync has ended on the error of its second batch, with the rows of
\* its first batch stored and the wallet without a watermark, and a scheduled
\* sync has ended on an exception of fetchSubgraphEvents.
C12_Witness ==
  \E c \in Calls, d \in Calls :
    /\ routes[c].kind = "manual" /\ routes[c].pc = "done"
    /\ routes[c].response.error = "Failed to insert events"
    /\ routes[c].next > 1
    /\ strategy_event_sync[routes[c].wallet] = NoSyncRow
    /\ \E row \in strategy_events : row.wallet_id = routes[c].wallet
    /\ routes[d].kind = "cron" /\ routes[d].pc = "done"
    /\ calls[d].pc = "threw" /\ routes[d].response.detail # NONE

\* C13: in both routes, the watermark a sync with at least one event writes
\* is the largest timestamp and the largest block number of its events.
C13_WatermarkIsBatchMaximum ==
  [][\A c \in Calls :
       (/\ routes[c].pc = "watermark" /\ Ends(c)
        /\ failures' = failures
        /\ Len(calls[c].result) > 0) =>
         strategy_event_sync'[routes[c].wallet] =
           SyncRow(Num(MaxOf(Timestamps(calls[c].result))),
                   Num(MaxOf(BlockNumbers(calls[c].result))))]_vars

\* the lookup of a row found no price
Missed(lookup) == lookup.t \in {"null", "throw"}

\* C14: in both routes, a sync whose fetch returned keeps one row for every
\* event, in order, whatever the price lookups end in; the row of a lookup
\* that returned null or threw carries no price; the sync reports no failure
\* other than an error of the store, and once its upserts have answered
\* without error every event has its row stored.
C14_PriceMissNeverBlocks ==
  \A c \in Calls :
    (routes[c].pc \notin {"idle", "fetch"} /\ calls[c].pc = "returned") =>
      /\ Len(routes[c].inserts) = Len(calls[c].result)
      /\ Len(routes[c].lookups) = Len(routes[c].inserts)
      /\ \A i \in 1..Len(routes[c].inserts) :
           /\ Key(routes[c].inserts[i]) = EventKey(routes[c].wallet, calls[c].result[i])
           /\ Missed(routes[c].lookups[i]) => ~Truthy(routes[c].inserts[i].price_usd)
      /\ routes[c].response.detail \in {NONE, "store error"}
      /\ (\/ routes[c].pc = "watermark"
          \/ routes[c].pc = "done" /\ routes[c].response.detail = NONE) => EventsStored(c)

\* A manual sync with prices has ended well after a lookup threw, a scheduled
\* sync has ended well after a lookup returned null, and the rows of both are
\* stored.
C14_Witness ==
  \E c \in Calls, d \in Calls :
    /\ routes[c].kind = "manual" /\ routes[c].pc = "done" /\ routes[c].response.status = 200
    /\ \E i \in 1..Len(routes[c].lookups) : routes[c].lookups[i].t = "throw"
    /\ routes[d].kind = "cron" /\ routes[d].pc = "done" /\ routes[d].response.synced > 0
    /\ \E i \in 1..Len(routes[d].lookups) : routes[d].lookups[i].t = "null"
    /\ EventsStored(c) /\ EventsStored(d)

\* ------------------------------------------------------- the pure helpers
RECURSIVE Pow10(_)
Pow10(n) == IF n = 0 THEN 1 ELSE 10 * Pow10(n - 1)
\* the position of the decimal point of a plain decimal string, 0 without one
DotAt(q) == IF \E i \in 1..Len(q) : q[i] = "." THEN CHOOSE i \in 1..Len(q) : q[i] = "." ELSE 0
IntegerPart(q) == IF DotAt(q) = 0 THEN q ELSE SubSeq(q, 1, DotAt(q) - 1)
FractionPart(q) == IF DotAt(q) = 0 THEN <<>> ELSE SubSeq(q, DotAt(q) + 1, Len(q))
\* q is the plain decimal string of raw / 10^d: an integer part without
\* leading zeros, a fraction without trailing zeros that is present only when
\* it is not zero, and integer * 10^d + fraction digits = raw with no remainder.
ExactDecimal(q, raw, d) ==
  /\ isIntegerString(IntegerPart(q))
  /\ IntegerPart(q) = <<"0">> \/ IntegerPart(q)[1] # "0"
  /\ DotAt(q) # 0 =>
       /\ isIntegerString(FractionPart(q))
       /\ FractionPart(q)[Len(FractionPart(q))] # "0"
  /\ Len(FractionPart(q)) <= d
  /\ DigitsToNat(IntegerPart(q)) * Pow10(d)
       + DigitsToNat(FractionPart(q)) * Pow10(d - Len(FractionPart(q)))
     = DigitsToNat(raw)
DigitString(v) == v.t = "string" /\ isIntegerString(v.s)
KnownDecimals(v) == IsFinite(v) /\ v.n >= 0

\* C21: for an amountRaw that is a string of decimal digits and known
\* non-negative integer decimals d, the normalized amount is the exact plain
\* decimal representation of amountRaw / 10^d.
C21_ExactScaling ==
  (eval.op = "normalizeAmount" /\ DigitString(eval.amountRaw) /\ KnownDecimals(eval.decimals))
    => /\ eval.out.t = "string"
       /\ ExactDecimal(eval.out.s, eval.amountRaw.s, eval.decimals.n)
\* "005" at 4 decimals is "0.0005"
C21_Witness ==
  /\ eval.op = "normalizeAmount"
  /\ eval.amountRaw = Str(<<"0", "0", "5">>) /\ eval.decimals = Num(4)
  /\ eval.out = Str(<<"0", ".", "0", "0", "0", "5">>)

\* line 240: the decimals the event records, null unless they are finite
UnknownDecimals(v) == ~IsFinite(v)

\* C22: normalizeAmount returns a value for every amountRaw and assetDecimals
\* and, when the decimals are unknown or amountRaw is not a pure non-negative
\* integer string, the returned amount is amountRaw unchanged (a missing
\* amountRaw counts as null).
C22_TotalAndUnchanged ==
  eval.op = "normalizeAmount"
    => /\ eval.out.t # "throw"
       /\ (UnknownDecimals(eval.decimals) \/ ~DigitString(eval.amountRaw))
            => eval.out = Coalesce(eval.amountRaw, Null)

\* the layers of a type reference that are no NON_NULL or LIST wrapper
NamedLayers(typeRef) == {i \in 1..Len(typeRef) : typeRef[i].kind \notin {"NON_NULL", "LIST"}}
Lowest(S) == CHOOSE i \in S : \A j \in S : i <= j

\* C23: unwrapTypeName returns the innermost named type below any number of
\* NON_NULL and LIST wrappers, and null when the chain ends without a named
\* type.
C23_UnwrapsAnyDepth ==
  eval.op = "unwrapTypeName"
    => eval.out = IF NamedLayers(eval.typeRef) = {} THEN NONE
                  ELSE eval.typeRef[Lowest(NamedLayers(eval.typeRef))].name
\* a named type below five wrappers, and a chain of five wrappers that ends
\* without one
C23_Witness ==
  /\ eval.op = "unwrapTypeName"
  /\ Len(eval.typeRef) = MaxDepth + 1
  /\ NamedLayers(eval.typeRef) = {MaxDepth + 1}
  /\ eval.out = "Token"
C23_WitnessUnnamed ==
  /\ eval.op = "unwrapTypeName"
  /\ Len(eval.typeRef) = MaxDepth
  /\ NamedLayers(eval.typeRef) = {}
  /\ eval.out = NONE

\* the candidates that name a field of the list
Present(fields, candidates) ==
  {i \in 1..Len(candidates) : candidates[i] \in SeqNames(fields)}

\* C24: pickField returns the earliest candidate, in candidate order, that is
\* the name of a field, whatever the order of the fields, and undefined when
\* no candidate is.
C24_FirstCandidateWins ==
  eval.op = "pickField"
    => eval.out = IF Present(eval.fields, eval.candidates) = {} THEN NONE
                  ELSE eval.candidates[Lowest(Present(eval.fields, eval.candidates))]
\* two candidates are fields and the fields list them in the opposite order
C24_Witness ==
  /\ eval.op = "pickField"
  /\ eval.candidates = <<"owner", "user", "account">>
  /\ SeqNames(eval.fields) = {"account", "user", "timestamp"}
  /\ eval.fields[1].name = "account"
  /\ eval.out = "user"

\* ------------------------------------------------------- the wallet filter
\* lines 314-326 and 1100-1110: the user/account filters the query of a
\* schema binds to $user / $account, inside where or as a direct argument
UserFilters(schema) ==
  IF "whereAccountField" \in DOMAIN schema THEN {schema.whereAccountField} \ {NONE}
  ELSE {schema.whereUserField, schema.directUserArg} \ {NONE}

\* C25: every data query that fetchSubgraphEvents sends binds the wallet's
\* address to a user/account filter, inside where or as a direct argument.
C25_EveryQueryFiltersByWallet ==
  \A c \in Calls :
    \A i \in 1..Len(PageRequests(calls[c])) :
      UserFilters(SchemaFor(calls[c], PageRequests(calls[c])[i].field)) # {}

\* ------------------------------------------------- syncs of one wallet
\* The events of the wallet at the source: what normalizeEvent makes of every
\* record the endpoint holds under the query field of a schema of the call.
ParamsOf(call, schema, item) ==
  IF call.protocol = "compound" THEN CompoundParams(schema, item) ELSE AaveParams(schema, item)
SourceEventsOf(call, schema) ==
  LET data == ShapeOf(serves[call.url]).data
      records == IF schema.queryField \in DOMAIN data THEN data[schema.queryField] ELSE <<>>
  IN  {normalizeEvent(ParamsOf(call, schema,
                               [raw |-> records[i], src |-> <<schema.queryField, i>>])) :
         i \in 1..Len(records)} \ {Null}
\* the queries of the schema select by timestamp, so a sync that starts at a
\* watermark no longer sees the older events of its field
FilteredByTimestamp(schema) == TimestampFilters(schema) # {NONE}
\* a sync ends by writing the watermark of its wallet
Advances(c) ==
  /\ routes[c].pc = "watermark" /\ Ends(c)
  /\ strategy_event_sync'[routes[c].wallet] # strategy_event_sync[routes[c].wallet]
WatermarkAfter(c) == toTimestamp(strategy_event_sync'[routes[c].wallet].last_synced_timestamp)

\* C26: whenever a sync advances the watermark of its wallet to T, every
\* source event of the wallet with a timestamp from the previous watermark up
\* to T, in every query field, has its row stored or is still selected by the
\* queries of a sync that starts at T.
C26_NoEventLost ==
  [][\A c \in Calls :
       Advances(c) =>
         \A i \in 1..Len(calls[c].schemas) :
           \A e \in SourceEventsOf(calls[c], calls[c].schemas[i]) :
             (/\ FilteredByTimestamp(calls[c].schemas[i])
              /\ e.timestamp >= routes[c].lastTimestamp
              /\ e.timestamp < WatermarkAfter(c))
               => EventKey(routes[c].wallet, e) \in Keys(strategy_events')]_vars

\* C27: the stored watermark of a wallet never decreases, whatever the order
\* and interleaving of manual and scheduled syncs of that wallet.
C27_WatermarkMonotonic ==
  [][\A w \in WalletIds :
       toTimestamp(strategy_event_sync'[w].last_synced_timestamp)
         >= toTimestamp(strategy_event_sync[w].last_synced_timestamp)]_vars

\* C28: an upsert of an event whose key is already stored keeps the stored
\* row of that key: the row stays, and a price_usd it carried is not lost.
C28_StoredPriceIsKept ==
  [][\A row \in strategy_events :
       \E kept \in strategy_events' :
         /\ Key(kept) = Key(row)
         /\ Truthy(row.price_usd) => kept.price_usd = row.price_usd]_vars

\* ------------------------------------------------------ mapWithConcurrency
InFlight == {k \in DOMAIN pool.mappers : pool.mappers[k] = "running"}
Invoked == {k \in DOMAIN pool.mappers : pool.mappers[k] # "idle"}
\* the batch of an item: items 1..limit are batch 0, and so on
BatchNo(k) == (k - 1) \div pool.limit

\* C29: at any moment at most limit mappers are in flight, an item of a batch
\* is started only after every item of the batches before it has settled, and
\* the results returned are the mappers' results in input order.
C29_BoundedBatches ==
  pool.pc # "idle" =>
    /\ Cardinality(InFlight) <= pool.limit
    /\ \A k \in Invoked : \A j \in DOMAIN pool.mappers :
         BatchNo(j) < BatchNo(k) => pool.mappers[j] \in {"fulfilled", "rejected"}
    /\ pool.pc = "returned" =>
         pool.results = [k \in 1..pool.n |-> Mapped(k, k - 1)]
\* four items in batches of three have been mapped: the last batch is the
\* single fourth item
C29_Witness ==
  /\ pool.pc = "returned" /\ pool.n = 4 /\ pool.limit = 3
  /\ Len(pool.results) = 4
\* three mappers are in flight at limit three while a fourth item waits
C29_WitnessFull ==
  /\ pool.pc = "await" /\ pool.n = 4 /\ pool.limit = 3
  /\ Cardinality(InFlight) = 3 /\ pool.mappers[4] = "idle"

\* ------------------------------------------------------------ termination
\* C30: when every request gets a response, a call of fetchSubgraphEvents
\* eventually returns a list or fails with an error, for every maxEvents and
\* whatever records are dropped.
C30_Terminates ==
  \A c \in LiveCalls :
    (calls[c].pc \in {"schema", "page"}) ~> (calls[c].pc \in {"returned", "threw"})
\* a call without a cap has returned after a full page and a dropped record
C30_Witness ==
  \E c \in LiveCalls :
    /\ calls[c].pc = "returned"
    /\ calls[c].maxEvents = 0
    /\ \E i \in 1..Len(calls[c].pages) : calls[c].pages[i] = PAGE_SIZE
    /\ Len(calls[c].result) < Len(Delivered(calls[c], Len(calls[c].pages)))

====
